---- MODULE Spec2Model ----
(***************************************************************************)
(* Model of the DMA transfer engine of imxrt-async-hal: the shared-state   *)
(* table, the DMA interrupt handler, the interrupt-driven completion       *)
(* future (Interrupt) used by receive/transfer, and the pipe               *)
(* (Sender/Receiver) built on an always-on channel.                        *)
(*                                                                         *)
(* Two channels that share one interrupt vector are modelled: channel 13   *)
(* carries a pipe, channel 29 carries one-shot peripheral receives.  Both  *)
(* are served by the handler DMA13_DMA29.                                  *)
(*                                                                         *)
(* Granularity: one poll of a future, one drop, one run of the interrupt   *)
(* handler and one hardware event are each one step.  A major loop of the  *)
(* DMA engine is one hardware step.                                        *)
(***************************************************************************)
EXTENDS Integers, Sequences, FiniteSets, TLC

\* ---- bounds ----
\* calls made on each pipe half, and one-shot receives on the other channel of
\* the vector, in PipeSpec
MaxSends == 2
MaxRecvs == 2
MaxOther == 1
\* the same in PipeFairSpec
LiveSends == 2
LiveRecvs == 2
LiveOther == 1
\* one-shot receive calls in XferSpec
MaxXfers == 3
\* delays called on each PIT channel in PitSpec
MaxDelays == 2
\* wait_for calls made on each GPIO pin in GpioSpec
MaxWaits == 2

\* ---- program constants ----
UNDEFINED == 0
READY == 1
PENDING == 2
COMPLETE == 3
DROPPED == 4
NUM_SHARED_STATES == 2
SENDER_STATE == 0
RECEIVER_STATE == 1

PipeCh == 13
XferCh == 29
Chans == {PipeCh, XferCh}
Slots == 0 .. (NUM_SHARED_STATES - 1)
States == {UNDEFINED, READY, PENDING, COMPLETE, DROPPED}

NoWaker == "none"
\* "Y": a second task that polls the one-shot receive with its own waker
Tasks == {"S", "R", "X", "Y"}

\* contents of a buffer that was never written
Uninit == 0 - 1
\* what a read of uninitialized or released memory may yield: 1, the bit
\* pattern of the first value sent, or 0 for a pattern no send wrote
Garbage == {0, 1}

VARIABLES
  ERQ,            \* [Chans -> BOOLEAN]  channel enabled (enable request register)
  DONE,           \* [Chans -> BOOLEAN]  TCD CSR DONE, the completion flag
  INT,            \* [Chans -> BOOLEAN]  interrupt request register
  ERR,            \* [Chans -> BOOLEAN]  error register
  HRS,            \* [Chans -> BOOLEAN]  hardware request status
  START,          \* [Chans -> BOOLEAN]  TCD CSR START, software start request
  DREQ,           \* [Chans -> BOOLEAN]  disable on completion
  INTMAJOR,       \* [Chans -> BOOLEAN]  interrupt on completion
  chcfg,          \* [Chans -> {"off","hw","always"}] multiplexer configuration
  SHARED_STATES,  \* [Chans -> [Slots -> [state, waker]]]
  woken,          \* set of tasks whose waker was invoked and that were not polled since
  \* pipe, channel 13
  tcdSrc,         \* value at the descriptor's source address; 0: the Send that wrote it is gone
  tcdDstLive,     \* the destination address is the buffer of the live Receive future
  senderAlive, receiverAlive,
  sendFut,        \* "none" | "live"   the Send future of the current send call
  recvFut,        \* "none" | "live"
  rxBuf,          \* Receive.value of the live Receive future
  sendOut,        \* outcome of every finished send call, in call order
  recvOut,        \* outcome of every finished receive call, in call order
  rendezvous,     \* [{"S","R"} -> BOOLEAN] history: the engine completed a major loop while
                  \* this half's current call and a call of the peer were both registered
  peerAtDrop,     \* history: the peer's slot state when a half was dropped with the
                  \* peer's future live; UNDEFINED otherwise
  \* one-shot receive, channel 29
  srcEnabled,     \* the peripheral's DMA request enable bit
  xferFut,        \* "none" | "live"   the Interrupt future
  xstate,         \* Interrupt.state
  xres,           \* how the last receive call ended
  hwErrAtEnable,  \* history: the hardware reported an error right after the last
                  \* call's enable()
  xferCalls,      \* number of receive calls made
  pollLog,        \* history: the last Interrupt::poll: whether it was a call's first
                  \* poll, whether the channel was enabled when it began, the
                  \* writes it made, in order, and the waker it was given
  armedOps,       \* history: the receive calls (by number) that enabled the channel
                  \* and whose arming still stands
  \* start-up, descriptor programming and timers
  chip,           \* the chip feature the crate is built for
  nvic,           \* the DMA interrupt vectors are unmasked
  channelsRet,    \* the array dma::channels() returned; <<>> before the call
  CITER, BITER,   \* [Chans -> 0 .. 65535]  TCD major-loop counts, current and beginning
  prog,           \* a receive/transfer call seen as a function of its buffer length
  delay,          \* a timer delay seen as a function of its argument
  pit,            \* the PIT channels, WAKERS and the Delay future of each channel
  gpio            \* a GPIO module, its row of WAKERS and the wait_for future of each pin

hw == <<ERQ, DONE, INT, ERR, HRS, START, DREQ, INTMAJOR, chcfg>>
pipeVars == <<tcdSrc, tcdDstLive, senderAlive, receiverAlive, sendFut, recvFut,
              rxBuf, sendOut, recvOut, rendezvous, peerAtDrop>>
xferVars == <<srcEnabled, xferFut, xstate, xres, hwErrAtEnable, xferCalls, pollLog,
              armedOps>>
calcVars == <<chip, nvic, channelsRet, CITER, BITER, prog, delay, pit, gpio>>
vars == <<hw, SHARED_STATES, woken, pipeVars, xferVars, calcVars>>
\* what the tasks own, next to the machine state of Cur
pipeTask == <<senderAlive, receiverAlive, sendFut, recvFut, rxBuf, sendOut, recvOut,
              rendezvous, peerAtDrop>>
xferTask == <<xferFut, xstate, xres, hwErrAtEnable, xferCalls, pollLog, armedOps>>

Shared_new == [state |-> UNDEFINED, waker |-> NoWaker]

\* Shared::set_state on slot s of channel c of the machine state m
set_state(m, c, s, st) == [m EXCEPT !.SH[c][s].state = st]

\* ---- dma::channels() (dma.rs) ----
\* CHANNEL_COUNT: one row of SHARED_STATES per channel, sixteen of them left
\* out for the imxrt1010
Chips == {"imxrt1010", "imxrt1060"}
CHANNEL_COUNT == IF chip = "imxrt1010" THEN 16 ELSE 32

\* the length of the array channels() returns
PoolLen == 32

\* Option<Channel>: {} is None, {ch} is Some(ch)
Channel_new(index) == [index |-> index]
channel(ch) == ch.index

\* chip::DMA_CHANNEL_INIT: every entry None
DMA_CHANNEL_INIT == [i \in 0 .. (PoolLen - 1) |-> {}]

\* a loop over the first n entries that numbers the channels from one
channels_loop_from_one(channels, n) ==
  [i \in DOMAIN channels |-> IF i < n THEN {Channel_new(i + 1)} ELSE channels[i]]

\* the loop of channels(): entry idx becomes Some(Channel::new(idx)) for the
\* first n entries
channels_loop(channels, n) ==
  [i \in DOMAIN channels |-> IF i < n THEN {Channel_new(i)} ELSE channels[i]]

\* the modelled fields of channel c's transfer control descriptor
TCD(c) ==
  [DONE |-> DONE[c], START |-> START[c], DREQ |-> DREQ[c], INTMAJOR |-> INTMAJOR[c],
   CITER |-> CITER[c], BITER |-> BITER[c]]

\* TransferControlDescriptor::reset: every field of the descriptor is zero
tcd_reset(tcd) ==
  [DONE |-> FALSE, START |-> FALSE, DREQ |-> FALSE, INTMAJOR |-> FALSE,
   CITER |-> 0, BITER |-> 0]

\* the descriptor of channel c after the loop of channels()
AfterReset(c) == IF c < CHANNEL_COUNT THEN tcd_reset(TCD(c)) ELSE TCD(c)

\* the registers after reset and pipe::new(channel 13)
HwInit ==
  /\ ERQ = [c \in Chans |-> FALSE]
  /\ DONE = [c \in Chans |-> FALSE]
  /\ INT = [c \in Chans |-> FALSE]
  /\ ERR = [c \in Chans |-> FALSE]
  /\ HRS = [c \in Chans |-> FALSE]
  /\ START = [c \in Chans |-> FALSE]
  /\ DREQ = [c \in Chans |-> c = PipeCh]
  /\ INTMAJOR = [c \in Chans |-> c = PipeCh]
  /\ chcfg = [c \in Chans |-> IF c = PipeCh THEN "always" ELSE "off"]

\* SHARED_STATES as initialised, no call made yet
TaskInit ==
  /\ SHARED_STATES = [c \in Chans |-> [s \in Slots |-> Shared_new]]
  /\ woken = {}
  /\ tcdSrc = 0
  /\ tcdDstLive = FALSE
  /\ senderAlive = TRUE
  /\ receiverAlive = TRUE
  /\ sendFut = "none"
  /\ recvFut = "none"
  /\ rxBuf = Uninit
  /\ sendOut = <<>>
  /\ recvOut = <<>>
  /\ rendezvous = [t \in {"S", "R"} |-> FALSE]
  /\ peerAtDrop = UNDEFINED
  /\ srcEnabled = FALSE
  /\ xferFut = "none"
  /\ xstate = UNDEFINED
  /\ xres = "none"
  /\ hwErrAtEnable = FALSE
  /\ xferCalls = 0
  /\ pollLog = [first |-> FALSE, wasEnabled |-> FALSE, calls |-> <<>>, waker |-> NoWaker]
  /\ armedOps = {}

\* unsigned integers beyond 31 bits are held as two limbs, hi * Limb + lo
Limb == 2097152
Num(n) == [hi |-> n \div Limb, lo |-> n % Limb]
NoTransfer == [address |-> Num(0), offset |-> 0, modulo |-> 0, last_address_adjustment |-> 0]
NoProg ==
  [op |-> "none", len |-> 0, elem |-> 1, addr |-> Num(0), stage |-> "none",
   minorBytes |-> 0, source |-> NoTransfer, destination |-> NoTransfer,
   ret |-> "none", retLen |-> 0]
NoDelay ==
  [timer |-> "none", hz |-> 1, api |-> "none", arg |-> Num(0), stage |-> "none",
   delay_ns |-> Num(0), cnt |-> Num(0), reg |-> Num(0)]

\* two of the four PIT channels, after PeriodicTimer::new: every TCTRL zero,
\* no flag set, no waker stored, no delay called
PitChans == {0, 1}
NoPit ==
  [TIF |-> [c \in PitChans |-> FALSE],
   TIE |-> [c \in PitChans |-> FALSE],
   TEN |-> [c \in PitChans |-> FALSE],
   LDVAL |-> [c \in PitChans |-> 0],
   CVAL |-> [c \in PitChans |-> 0],
   WAKERS |-> [c \in PitChans |-> NoWaker],
   woken |-> {},
   fut |-> [c \in PitChans |-> "none"],
   delay_ns |-> [c \in PitChans |-> Num(0)],
   calls |-> [c \in PitChans |-> 0],
   started |-> [c \in PitChans |-> 0],
   raisedBy |-> [c \in PitChans |-> 0],
   res |-> [c \in PitChans |-> [call |-> 0, first |-> FALSE, raisedBy |-> 0]]]

\* two pins of one GPIO module, after GPIO::new: no pin unmasked, every
\* pointer of WAKERS null, no wait_for called
GpioPins == {0, 1}
NullPtr == 0
NoGpio ==
  [ISR |-> [pin \in GpioPins |-> FALSE],
   IMR |-> [pin \in GpioPins |-> FALSE],
   WAKERS |-> [pin \in GpioPins |-> NullPtr],
   fut |-> [pin \in GpioPins |-> 0],
   waker |-> [pin \in GpioPins |-> NoWaker],
   woken |-> {},
   calls |-> [pin \in GpioPins |-> 0],
   resolved |-> [pin \in GpioPins |-> 0],
   dangling |-> {}]

\* dma::channels() has run on a chip with 32 channels
PoolInit ==
  /\ chip = "imxrt1060"
  /\ nvic = TRUE
  /\ channelsRet = channels_loop(DMA_CHANNEL_INIT, CHANNEL_COUNT)
  /\ CITER = [c \in Chans |-> 0]
  /\ BITER = [c \in Chans |-> 0]

\* the state after SHARED_STATES is initialised, dma::channels() has reset
\* the descriptors, and pipe::new(channel 13) has run
Init ==
  /\ HwInit
  /\ TaskInit
  /\ PoolInit
  /\ prog = NoProg
  /\ delay = NoDelay
  /\ pit = NoPit
  /\ gpio = NoGpio

\* ---- the registers and the shared table as one value, so that the code's
\*      functions are operators from machine state to machine state ----
Cur ==
  [ERQ |-> ERQ, DONE |-> DONE, INT |-> INT, ERR |-> ERR, HRS |-> HRS,
   START |-> START, DREQ |-> DREQ, INTMAJOR |-> INTMAJOR, chcfg |-> chcfg,
   SH |-> SHARED_STATES, woken |-> woken, src |-> srcEnabled,
   tcdSrc |-> tcdSrc, tcdDstLive |-> tcdDstLive]

Commit(m) ==
  /\ ERQ' = m.ERQ
  /\ DONE' = m.DONE
  /\ INT' = m.INT
  /\ ERR' = m.ERR
  /\ HRS' = m.HRS
  /\ START' = m.START
  /\ DREQ' = m.DREQ
  /\ INTMAJOR' = m.INTMAJOR
  /\ chcfg' = m.chcfg
  /\ SHARED_STATES' = m.SH
  /\ woken' = m.woken
  /\ srcEnabled' = m.src
  /\ tcdSrc' = m.tcdSrc
  /\ tcdDstLive' = m.tcdDstLive

\* ---- Channel: register access (dma.rs) ----
set_trigger_from_hardware(m, c) == [m EXCEPT !.chcfg[c] = "hw"]
set_always_on(m, c) == [m EXCEPT !.chcfg[c] = "always"]
is_hardware_signaling(m, c) == m.HRS[c]
enable(m, c) == [m EXCEPT !.ERQ[c] = TRUE]
disable(m, c) == [m EXCEPT !.ERQ[c] = FALSE]
is_interrupt(m, c) == m.INT[c]
clear_interrupt(m, c) == [m EXCEPT !.INT[c] = FALSE]
set_disable_on_completion(m, c, b) == [m EXCEPT !.DREQ[c] = b]
set_interrupt_on_completion(m, c, b) == [m EXCEPT !.INTMAJOR[c] = b]
is_complete(m, c) == m.DONE[c]
clear_complete(m, c) == [m EXCEPT !.DONE[c] = FALSE]
is_error(m, c) == m.ERR[c]
clear_error(m, c) == [m EXCEPT !.ERR[c] = FALSE]
is_enabled(m, c) == m.ERQ[c]
start(m, c) == [m EXCEPT !.START[c] = TRUE]

\* Waker::wake
wake(m, w) == IF w = NoWaker THEN m ELSE [m EXCEPT !.woken = @ \cup {w}]

\* ---- interrupt.rs ----
\* a for_each body that takes the waker without invoking it
complete_slot_no_wake(m, idx, s) ==
  [m EXCEPT !.SH[idx][s] = [state |-> COMPLETE, waker |-> NoWaker]]

\* a for_each body that invokes the waker and leaves it in the slot
complete_slot_keeps_waker(m, idx, s) ==
  wake([m EXCEPT !.SH[idx][s].state = COMPLETE], m.SH[idx][s].waker)

\* a for_each body that resets the slot to Undefined
complete_slot_resets(m, idx, s) ==
  wake([m EXCEPT !.SH[idx][s] = [state |-> UNDEFINED, waker |-> NoWaker]],
       m.SH[idx][s].waker)

\* one slot of on_interrupt's for_each: mark Complete, take and invoke the waker
complete_slot(m, idx, s) ==
  wake([m EXCEPT !.SH[idx][s] = [state |-> COMPLETE, waker |-> NoWaker]],
       m.SH[idx][s].waker)

\* an on_interrupt that marks the slots without testing the completion flag
on_interrupt_ignores_done(m, idx) ==
  complete_slot(complete_slot(clear_interrupt(m, idx), idx, 0), idx, 1)

on_interrupt(m, idx) ==
  LET m1 == IF is_interrupt(m, idx) THEN clear_interrupt(m, idx) ELSE m
  IN IF is_complete(m1, idx)
       THEN complete_slot(complete_slot(m1, idx, 0), idx, 1)
       ELSE m1

\* the handler of the vector shared by channels 13 and 29; the NVIC runs it
\* while either channel's interrupt request is set
DMA13_DMA29 ==
  /\ nvic
  /\ INT[PipeCh] \/ INT[XferCh]
  /\ Commit(on_interrupt(on_interrupt(Cur, PipeCh), XferCh))
  /\ UNCHANGED <<pipeTask, xferTask>>
  /\ UNCHANGED calcVars

\* Interrupt::poll whose Ready arm tests the completion flag instead of the
\* enable bit
Interrupt_poll_wrong_guard(m, st, w, hwErr) ==
  IF st = READY /\ ~is_complete(m, XferCh)
    THEN [m |-> enable([m EXCEPT !.SH[XferCh][0].waker = w], XferCh),
          state |-> PENDING, out |-> "Pending", hwErr |-> FALSE,
          calls |-> <<"store", "enable">>]
    ELSE IF st = READY
      THEN [m |-> m, state |-> READY, out |-> "ScheduledTransfer", hwErr |-> FALSE,
            calls |-> <<>>]
      ELSE [m |-> m, state |-> st, out |-> "Pending", hwErr |-> FALSE, calls |-> <<>>]

\* Interrupt::poll whose Pending arm falls back to Ready while the transfer is
\* not complete
Interrupt_poll_back_to_ready(m, st, w, hwErr) ==
  IF st = PENDING /\ is_complete(m, XferCh)
    THEN [m |-> clear_complete(m, XferCh), state |-> COMPLETE, out |-> "Ok",
          hwErr |-> FALSE, calls |-> <<"clear_complete">>]
    ELSE IF st = PENDING
      THEN [m |-> m, state |-> READY, out |-> "Pending", hwErr |-> FALSE, calls |-> <<>>]
      ELSE [m |-> enable([m EXCEPT !.SH[XferCh][0].waker = w], XferCh),
            state |-> PENDING, out |-> "Pending", hwErr |-> FALSE,
            calls |-> <<"store", "enable">>]

\* Interrupt::poll whose Ready arm enables the channel and stores no waker
Interrupt_poll_no_store(m, st, w, hwErr) ==
  IF st = PENDING /\ is_complete(m, XferCh)
    THEN [m |-> clear_complete(m, XferCh), state |-> COMPLETE, out |-> "Ok",
          hwErr |-> FALSE, calls |-> <<"clear_complete">>]
    ELSE IF st = READY /\ ~is_enabled(m, XferCh)
      THEN [m |-> enable(m, XferCh), state |-> PENDING, out |-> "Pending",
            hwErr |-> FALSE, calls |-> <<"enable">>]
      ELSE [m |-> m, state |-> st, out |-> IF st = PENDING THEN "Pending"
                                                            ELSE "ScheduledTransfer",
            hwErr |-> FALSE, calls |-> <<>>]

\* Interrupt::poll whose Pending arm reads the status of slot 0 instead of the
\* channel's completion flag
Interrupt_poll_on_slot_status(m, st, w, hwErr) ==
  IF st = PENDING /\ m.SH[XferCh][0].state = COMPLETE
    THEN [m |-> clear_complete(m, XferCh), state |-> COMPLETE, out |-> "Ok",
          hwErr |-> FALSE, calls |-> <<"clear_complete">>]
    ELSE IF st = READY /\ ~is_enabled(m, XferCh)
      THEN [m |-> enable([m EXCEPT !.SH[XferCh][0].waker = w], XferCh),
            state |-> PENDING, out |-> "Pending", hwErr |-> FALSE,
            calls |-> <<"store", "enable">>]
      ELSE [m |-> m, state |-> st, out |-> IF st = PENDING THEN "Pending"
                                                            ELSE "ScheduledTransfer",
            hwErr |-> FALSE, calls |-> <<>>]

\* Interrupt::poll without the is_enabled guard of the Ready arm
Interrupt_poll_no_guard(m, st, w, hwErr) ==
  IF st = READY
    THEN [m |-> enable([m EXCEPT !.SH[XferCh][0].waker = w], XferCh),
          state |-> PENDING, out |-> "Pending", hwErr |-> FALSE,
          calls |-> <<"store", "enable">>]
    ELSE [m |-> m, state |-> st, out |-> "Pending", hwErr |-> FALSE, calls |-> <<>>]

\* Interrupt::poll whose Setup path leaves the channel enabled and the error set
Interrupt_poll_no_cleanup(m, st, w, hwErr) ==
  IF st = READY /\ ~is_enabled(m, XferCh) /\ hwErr
    THEN [m |-> [enable(m, XferCh) EXCEPT !.ERR[XferCh] = TRUE, !.HRS[XferCh] = TRUE],
          state |-> UNDEFINED, out |-> "Setup", hwErr |-> hwErr,
          calls |-> <<"store", "enable">>]
    ELSE [m |-> m, state |-> st, out |-> "Pending", hwErr |-> FALSE, calls |-> <<>>]

\* Interrupt::poll in state st, polled with waker w.  hwErr: the hardware
\* reports an error for the channel between enable() and is_error().
Interrupt_poll(m, st, w, hwErr) ==
  CASE st = PENDING /\ is_complete(m, XferCh) ->
         [m |-> clear_complete(m, XferCh), state |-> COMPLETE, out |-> "Ok",
          hwErr |-> FALSE, calls |-> <<"clear_complete">>]
    [] st = PENDING /\ ~is_complete(m, XferCh) ->
         [m |-> m, state |-> PENDING, out |-> "Pending", hwErr |-> FALSE,
          calls |-> <<>>]
    [] st = READY /\ is_enabled(m, XferCh) ->
         [m |-> m, state |-> READY, out |-> "ScheduledTransfer", hwErr |-> FALSE,
          calls |-> <<>>]
    [] st = READY /\ ~is_enabled(m, XferCh) ->
         LET m1 == [m EXCEPT !.SH[XferCh][0].waker = w]
             m2 == enable(m1, XferCh)
             m3 == IF hwErr THEN [m2 EXCEPT !.ERR[XferCh] = TRUE, !.HRS[XferCh] = TRUE]
                            ELSE m2
         IN IF is_error(m3, XferCh)
              THEN LET m4 == disable(m3, XferCh)
                       m5 == [m4 EXCEPT !.SH[XferCh][0].waker = NoWaker]
                   IN [m |-> clear_error(m5, XferCh), state |-> UNDEFINED,
                       out |-> "Setup", hwErr |-> hwErr,
                       calls |-> <<"store", "enable", "disable", "unstore", "clear_error">>]
              ELSE [m |-> m3, state |-> PENDING, out |-> "Pending", hwErr |-> FALSE,
                    calls |-> <<"store", "enable">>]
    [] OTHER -> [m |-> m, state |-> st, out |-> "unreachable", hwErr |-> FALSE,
                 calls |-> <<>>]

\* peripheral.rs, the on_drop closure of receive: disable_source(), then spin
\* until the channel is no longer signaled by hardware
on_drop(m) == [m EXCEPT !.src = FALSE, !.HRS[XferCh] = FALSE]

\* an Interrupt::drop that does not call on_drop
Interrupt_drop_no_on_drop(m) ==
  [clear_complete(disable(m, XferCh), XferCh) EXCEPT !.SH[XferCh][0].waker = NoWaker]

\* Interrupt::drop
Interrupt_drop(m) ==
  LET m1 == on_drop(m)
      m2 == disable(m1, XferCh)
      m3 == clear_complete(m2, XferCh)
  IN [m3 EXCEPT !.SH[XferCh][0].waker = NoWaker]

\* interrupt(): the Interrupt future in state READY
interrupt(m) ==
  set_interrupt_on_completion(set_disable_on_completion(m, XferCh, TRUE), XferCh, TRUE)

\* peripheral.rs receive, up to the await: configure the channel, enable the source
receive_setup(m) ==
  interrupt([set_trigger_from_hardware(m, XferCh) EXCEPT !.src = TRUE])

\* the task of waker w is being polled
polled(m, w) == [m EXCEPT !.woken = @ \ {w}]

\* the call numbered id armed the channel when its poll wrote the enable bit
Armed(calls, id) ==
  IF \E i \in 1 .. Len(calls) : calls[i] = "enable" THEN {id} ELSE {}

\* the first poll of a receive call, at most n calls: the body up to the await,
\* then Interrupt::poll; when the poll resolves, the return drops the Interrupt
ReceiveFirstPollN(n) ==
  /\ xferFut = "none"
  /\ xferCalls < n
  /\ xferCalls' = xferCalls + 1
  /\ \E hwErr \in BOOLEAN :
       LET r == Interrupt_poll(receive_setup(polled(Cur, "X")), READY, "X", hwErr)
       IN /\ xstate' = r.state
          /\ hwErrAtEnable' = r.hwErr
          /\ pollLog' = [first |-> TRUE, wasEnabled |-> ERQ[XferCh], calls |-> r.calls,
                          waker |-> "X"]
          /\ IF r.out = "Pending"
               THEN /\ Commit(r.m)
                    /\ xferFut' = "live"
                    /\ xres' = "none"
                    /\ armedOps' = armedOps \cup Armed(r.calls, xferCalls + 1)
               ELSE /\ Commit(Interrupt_drop(r.m))
                    /\ xferFut' = "none"
                    /\ xres' = r.out
                    /\ armedOps' = {}
  /\ UNCHANGED pipeTask
  /\ UNCHANGED calcVars

ReceiveFirstPoll == ReceiveFirstPollN(MaxXfers)

\* a later poll of the same receive call, by the task of waker w
ReceivePollW(w) ==
  /\ xferFut = "live"
  /\ LET r == Interrupt_poll(polled(Cur, w), xstate, w, FALSE)
     IN /\ xstate' = r.state
        /\ pollLog' = [first |-> FALSE, wasEnabled |-> ERQ[XferCh], calls |-> r.calls,
                        waker |-> w]
        /\ IF r.out = "Pending"
             THEN /\ Commit(r.m)
                  /\ UNCHANGED <<xferFut, xres, armedOps>>
             ELSE /\ Commit(Interrupt_drop(r.m))
                  /\ xferFut' = "none"
                  /\ xres' = r.out
                  /\ armedOps' = {}
  /\ UNCHANGED <<pipeTask, hwErrAtEnable, xferCalls>>
  /\ UNCHANGED calcVars

\* a later poll by the task that made the first poll
ReceivePoll == ReceivePollW("X")

\* a later poll with a different waker: the future is polled by another task
ReceiveRepoll == ReceivePollW("Y")

\* the pending receive future is dropped by its owner
ReceiveDrop ==
  /\ xferFut = "live"
  /\ Commit(Interrupt_drop(Cur))
  /\ xferFut' = "none"
  /\ xres' = "Dropped"
  /\ armedOps' = {}
  /\ UNCHANGED <<pipeTask, xstate, hwErrAtEnable, xferCalls, pollLog>>
  /\ UNCHANGED calcVars

\* a forget that runs the drop of the Interrupt
ReceiveForget_with_drop ==
  /\ xferFut = "live"
  /\ Commit(Interrupt_drop(Cur))
  /\ xferFut' = "none"
  /\ xres' = "Forgotten"
  /\ UNCHANGED <<pipeTask, xstate, hwErrAtEnable, xferCalls, pollLog, armedOps>>
  /\ UNCHANGED calcVars

\* the pending receive future is forgotten (core::mem::forget): no drop runs
ReceiveForget ==
  /\ xferFut = "live"
  /\ xferFut' = "none"
  /\ xres' = "Forgotten"
  /\ UNCHANGED <<hw, SHARED_STATES, woken, pipeVars, srcEnabled, xstate,
                 hwErrAtEnable, xferCalls, pollLog, armedOps>>
  /\ UNCHANGED calcVars

\* ---- hardware ----
\* the channel is requested: a software start, or an enabled channel whose
\* multiplexer source is always on or asserts its request
Requested(c) ==
  \/ START[c]
  \/ ERQ[c] /\ (chcfg[c] = "always" \/ (chcfg[c] = "hw" /\ HRS[c]))

\* the peripheral, with its DMA request enabled, asserts its request
HwRequest ==
  /\ srcEnabled
  /\ chcfg[XferCh] = "hw"
  /\ ~HRS[XferCh]
  /\ HRS' = [HRS EXCEPT ![XferCh] = TRUE]
  /\ UNCHANGED <<ERQ, DONE, INT, ERR, START, DREQ, INTMAJOR, chcfg>>
  /\ UNCHANGED <<SHARED_STATES, woken, pipeVars, xferVars>>
  /\ UNCHANGED calcVars

\* both halves of the pipe have a call that registered and did not resolve
BothRegistered ==
  /\ sendFut = "live"
  /\ recvFut = "live"

\* the engine runs the major loop of a requested channel to its end: DONE is
\* set, the interrupt request is raised when INTMAJOR is set, the enable bit
\* is cleared when DREQ is set.  The pipe's channel copies the value.
HwMajorLoop(c) ==
  /\ Requested(c)
  /\ ~ERR[c]
  /\ START' = [START EXCEPT ![c] = FALSE]
  /\ DONE' = [DONE EXCEPT ![c] = TRUE]
  /\ INT' = [INT EXCEPT ![c] = @ \/ INTMAJOR[c]]
  /\ ERQ' = [ERQ EXCEPT ![c] = @ /\ ~DREQ[c]]
  /\ HRS' = [HRS EXCEPT ![c] = FALSE]
  /\ IF c = PipeCh /\ tcdDstLive
       THEN \E g \in Garbage : rxBuf' = IF tcdSrc # 0 THEN tcdSrc ELSE g
       ELSE rxBuf' = rxBuf
  /\ rendezvous' = IF c = PipeCh /\ BothRegistered
                     THEN [t \in {"S", "R"} |-> TRUE]
                     ELSE rendezvous
  /\ UNCHANGED <<ERR, DREQ, INTMAJOR, chcfg, SHARED_STATES, woken>>
  /\ armedOps' = IF c = XferCh /\ DREQ[c] THEN {} ELSE armedOps
  /\ UNCHANGED <<tcdSrc, tcdDstLive, senderAlive, receiverAlive, sendFut, recvFut,
                 sendOut, recvOut, peerAtDrop>>
  /\ UNCHANGED <<srcEnabled, xferFut, xstate, xres, hwErrAtEnable, xferCalls, pollLog>>
  /\ UNCHANGED calcVars

HwPipe == HwMajorLoop(PipeCh)
HwXfer == HwMajorLoop(XferCh)

\* the engine rejects the descriptor of the hardware-triggered channel when a
\* request activates it
HwError ==
  /\ Requested(XferCh)
  /\ ~ERR[XferCh]
  /\ ERR' = [ERR EXCEPT ![XferCh] = TRUE]
  /\ UNCHANGED <<ERQ, DONE, INT, HRS, START, DREQ, INTMAJOR, chcfg>>
  /\ UNCHANGED <<SHARED_STATES, woken, pipeVars, xferVars>>
  /\ UNCHANGED calcVars

\* ---- pipe.rs ----
sender_state(m) == m.SH[PipeCh][SENDER_STATE].state
receiver_state(m) == m.SH[PipeCh][RECEIVER_STATE].state

\* Send::poll for the value v, polled with waker w
Send_poll(m, v, w) ==
  CASE receiver_state(m) = DROPPED -> [m |-> m, out |-> "Cancelled"]
    [] receiver_state(m) # DROPPED /\ sender_state(m) = READY ->
         LET m1 == [m EXCEPT !.tcdSrc = v]
             m2 == [m1 EXCEPT !.SH[PipeCh][SENDER_STATE] =
                                 [state |-> PENDING, waker |-> w]]
         IN [m |-> IF receiver_state(m) = PENDING
                     THEN start(enable(m2, PipeCh), PipeCh)
                     ELSE m2,
             out |-> "Pending"]
    [] receiver_state(m) # DROPPED /\ sender_state(m) = COMPLETE ->
         [m |-> m, out |-> "Ok"]
    [] receiver_state(m) # DROPPED /\ sender_state(m) = PENDING ->
         [m |-> m, out |-> "Pending"]
    [] OTHER -> [m |-> m, out |-> "unreachable"]

\* a Send::drop that resets the Receiver's slot
Send_drop_wrong_slot(m) ==
  [set_state(disable(m, PipeCh), PipeCh, RECEIVER_STATE, UNDEFINED) EXCEPT !.tcdSrc = 0]

\* Send::drop; the borrow of the value ends with the future
Send_drop(m) ==
  [set_state(disable(m, PipeCh), PipeCh, SENDER_STATE, UNDEFINED) EXCEPT !.tcdSrc = 0]

\* a Sender::drop that takes the Receiver's waker and does not invoke it
Sender_drop_no_wake(m) ==
  [set_state(m, PipeCh, SENDER_STATE, DROPPED)
     EXCEPT !.SH[PipeCh][RECEIVER_STATE].waker = NoWaker]

\* Sender::drop
Sender_drop(m) ==
  LET m1 == set_state(m, PipeCh, SENDER_STATE, DROPPED)
  IN wake([m1 EXCEPT !.SH[PipeCh][RECEIVER_STATE].waker = NoWaker],
          m1.SH[PipeCh][RECEIVER_STATE].waker)

\* Receive::poll, polled with waker w; buf is Receive.value, g what reading it
\* yields when it was never written
Receive_poll(m, buf, w, g) ==
  CASE sender_state(m) = DROPPED -> [m |-> m, out |-> "Cancelled", val |-> 0]
    [] sender_state(m) # DROPPED /\ receiver_state(m) = READY ->
         LET m1 == [m EXCEPT !.tcdDstLive = TRUE]
             m2 == [m1 EXCEPT !.SH[PipeCh][RECEIVER_STATE] =
                                 [state |-> PENDING, waker |-> w]]
         IN [m |-> IF sender_state(m) = PENDING
                     THEN start(enable(m2, PipeCh), PipeCh)
                     ELSE m2,
             out |-> "Pending", val |-> 0]
    [] sender_state(m) # DROPPED /\ receiver_state(m) = COMPLETE ->
         [m |-> m, out |-> "Ok", val |-> IF buf = Uninit THEN g ELSE buf]
    [] sender_state(m) # DROPPED /\ receiver_state(m) = PENDING ->
         [m |-> m, out |-> "Pending", val |-> 0]
    [] OTHER -> [m |-> m, out |-> "unreachable", val |-> 0]

\* Receive::drop; the buffer goes with the future
Receive_drop(m) ==
  [set_state(disable(m, PipeCh), PipeCh, RECEIVER_STATE, UNDEFINED)
     EXCEPT !.tcdDstLive = FALSE]

\* Receiver::drop
Receiver_drop(m) ==
  LET m1 == set_state(m, PipeCh, RECEIVER_STATE, DROPPED)
  IN wake([m1 EXCEPT !.SH[PipeCh][SENDER_STATE].waker = NoWaker],
          m1.SH[PipeCh][SENDER_STATE].waker)

\* the value of the k-th send call is k
NextValue == Len(sendOut) + 1

\* first poll of a send call, at most n calls: Sender::send sets the slot
\* Ready and awaits Send; a resolved Send is dropped
SendFirstPollN(n) ==
  /\ senderAlive
  /\ sendFut = "none"
  /\ Len(sendOut) < n
  /\ LET r == Send_poll(set_state(polled(Cur, "S"), PipeCh, SENDER_STATE, READY),
                        NextValue, "S")
     IN IF r.out = "Pending"
          THEN /\ Commit(r.m)
               /\ sendFut' = "live"
               /\ sendOut' = sendOut
          ELSE /\ Commit(Send_drop(r.m))
               /\ sendFut' = "none"
               /\ sendOut' = Append(sendOut, r.out)
  /\ rendezvous' = [rendezvous EXCEPT !["S"] = FALSE]
  /\ UNCHANGED <<senderAlive, receiverAlive, recvFut, rxBuf, recvOut, peerAtDrop>>
  /\ UNCHANGED xferTask
  /\ UNCHANGED calcVars

SendFirstPoll == SendFirstPollN(MaxSends)

\* a later poll of the send call
SendPoll ==
  /\ sendFut = "live"
  /\ LET r == Send_poll(polled(Cur, "S"), NextValue, "S")
     IN IF r.out = "Pending"
          THEN /\ Commit(r.m)
               /\ UNCHANGED <<sendFut, sendOut>>
          ELSE /\ Commit(Send_drop(r.m))
               /\ sendFut' = "none"
               /\ sendOut' = Append(sendOut, r.out)
  /\ UNCHANGED <<senderAlive, receiverAlive, recvFut, rxBuf, recvOut, rendezvous,
                 peerAtDrop>>
  /\ UNCHANGED xferTask
  /\ UNCHANGED calcVars

\* the pending send future is dropped by its owner
SendCancel ==
  /\ sendFut = "live"
  /\ Commit(Send_drop(Cur))
  /\ sendFut' = "none"
  /\ sendOut' = Append(sendOut, "dropped")
  /\ UNCHANGED <<senderAlive, receiverAlive, recvFut, rxBuf, recvOut, rendezvous,
                 peerAtDrop>>
  /\ UNCHANGED xferTask
  /\ UNCHANGED calcVars

\* the Sender is dropped; no Send future borrows it
SenderDrop ==
  /\ senderAlive
  /\ sendFut = "none"
  /\ Commit(Sender_drop(Cur))
  /\ senderAlive' = FALSE
  /\ peerAtDrop' = IF recvFut = "live" THEN receiver_state(Cur) ELSE peerAtDrop
  /\ UNCHANGED <<receiverAlive, sendFut, recvFut, rxBuf, sendOut, recvOut, rendezvous>>
  /\ UNCHANGED xferTask
  /\ UNCHANGED calcVars

Outcome(out, val) == [res |-> out, val |-> val]

\* first poll of a receive call on the pipe, at most n calls
RecvFirstPollN(n) ==
  /\ receiverAlive
  /\ recvFut = "none"
  /\ Len(recvOut) < n
  /\ \E g \in Garbage :
       LET r == Receive_poll(set_state(polled(Cur, "R"), PipeCh, RECEIVER_STATE, READY),
                             Uninit, "R", g)
       IN IF r.out = "Pending"
            THEN /\ Commit(r.m)
                 /\ recvFut' = "live"
                 /\ recvOut' = recvOut
            ELSE /\ Commit(Receive_drop(r.m))
                 /\ recvFut' = "none"
                 /\ recvOut' = Append(recvOut, Outcome(r.out, r.val))
  /\ rxBuf' = Uninit
  /\ rendezvous' = [rendezvous EXCEPT !["R"] = FALSE]
  /\ UNCHANGED <<senderAlive, receiverAlive, sendFut, sendOut, peerAtDrop>>
  /\ UNCHANGED xferTask
  /\ UNCHANGED calcVars

RecvFirstPoll == RecvFirstPollN(MaxRecvs)

\* a later poll of the receive call
RecvPoll ==
  /\ recvFut = "live"
  /\ \E g \in Garbage :
       LET r == Receive_poll(polled(Cur, "R"), rxBuf, "R", g)
       IN IF r.out = "Pending"
            THEN /\ Commit(r.m)
                 /\ UNCHANGED <<recvFut, recvOut, rxBuf>>
            ELSE /\ Commit(Receive_drop(r.m))
                 /\ recvFut' = "none"
                 /\ recvOut' = Append(recvOut, Outcome(r.out, r.val))
                 /\ rxBuf' = Uninit
  /\ UNCHANGED <<senderAlive, receiverAlive, sendFut, sendOut, rendezvous, peerAtDrop>>
  /\ UNCHANGED xferTask
  /\ UNCHANGED calcVars

\* the pending receive future is dropped by its owner
RecvCancel ==
  /\ recvFut = "live"
  /\ Commit(Receive_drop(Cur))
  /\ recvFut' = "none"
  /\ recvOut' = Append(recvOut, Outcome("dropped", 0))
  /\ rxBuf' = Uninit
  /\ UNCHANGED <<senderAlive, receiverAlive, sendFut, sendOut, rendezvous, peerAtDrop>>
  /\ UNCHANGED xferTask
  /\ UNCHANGED calcVars

\* the Receiver is dropped; no Receive future borrows it
ReceiverDrop ==
  /\ receiverAlive
  /\ recvFut = "none"
  /\ Commit(Receiver_drop(Cur))
  /\ receiverAlive' = FALSE
  /\ peerAtDrop' = IF sendFut = "live" THEN sender_state(Cur) ELSE peerAtDrop
  /\ UNCHANGED <<senderAlive, sendFut, recvFut, rxBuf, sendOut, recvOut, rendezvous>>
  /\ UNCHANGED xferTask
  /\ UNCHANGED calcVars

\* ---- specifications ----
\* the one-shot receive on channel 29, its hardware and the handler
XferNext ==
  \/ DMA13_DMA29
  \/ HwRequest
  \/ HwXfer
  \/ HwError
  \/ ReceiveFirstPoll
  \/ ReceivePoll
  \/ ReceiveDrop
  \/ ReceiveForget

XferSpec == Init /\ [][XferNext]_vars

\* the one-shot receive polled by two tasks in turn
WakerNext ==
  \/ XferNext
  \/ ReceiveRepoll

WakerSpec == Init /\ [][WakerNext]_vars

\* a one-shot receive on the other channel of the pipe's interrupt vector
OtherFirstPoll == ReceiveFirstPollN(MaxOther)

\* the pipe on channel 13, with one-shot receives running to completion on
\* channel 29 of the same vector
PipeNext ==
  \/ DMA13_DMA29
  \/ HwPipe
  \/ SendFirstPoll
  \/ SendPoll
  \/ SendCancel
  \/ SenderDrop
  \/ RecvFirstPoll
  \/ RecvPoll
  \/ RecvCancel
  \/ ReceiverDrop
  \/ OtherFirstPoll
  \/ HwRequest
  \/ HwXfer
  \/ ReceivePoll

PipeSpec == Init /\ [][PipeNext]_vars

\* ---- one-shot receive: properties ----
XferReturned == xferFut = "none" /\ xres \in {"Ok", "Setup", "ScheduledTransfer", "Dropped"}

\* C1: on every exit path of receive (Ok, Setup, ScheduledTransfer, or the
\* future dropped while pending), once control is back with the caller the
\* peripheral's DMA request is disabled and the channel is not signaled by
\* hardware.
C1_ExitDisablesRequest ==
  XferReturned => ~srcEnabled /\ ~HRS[XferCh]

\* a later call was dropped while pending, after the peripheral had raised its
\* request and the engine had answered it
C1_Witness ==
  /\ xferFut = "none"
  /\ xres = "Dropped"
  /\ xferCalls > 1
  /\ ~srcEnabled
  /\ ERR[XferCh]

\* C2: after a pending receive is dropped the channel is disabled, its
\* completion flag and its error flag are clear, and slot 0 holds no waker.
C2_DropLeavesChannelClean ==
  (xferFut = "none" /\ xres = "Dropped") =>
    /\ ~ERQ[XferCh]
    /\ ~DONE[XferCh]
    /\ ~ERR[XferCh]
    /\ SHARED_STATES[XferCh][0].waker = NoWaker

\* C10: when the hardware reports an error right after enable() on the first
\* poll, the call resolves on that poll with Setup; afterwards the channel is
\* disabled, its error flag is clear and slot 0 holds no waker.
C10_SetupErrorOnFirstPoll ==
  hwErrAtEnable =>
    /\ xferFut = "none"
    /\ xres = "Setup"
    /\ xstate = UNDEFINED
    /\ ~ERQ[XferCh]
    /\ ~ERR[XferCh]
    /\ SHARED_STATES[XferCh][0].waker = NoWaker

\* a first poll on which the error was raised, after an earlier call completed
C10_Witness ==
  /\ hwErrAtEnable
  /\ xres = "Setup"
  /\ xferCalls = 2

\* the pipe with no future and no half ever dropped.  Fairness: the NVIC runs
\* a pending handler, the engine serves a requested channel, the executor
\* polls a woken task
LiveNext ==
  \/ DMA13_DMA29
  \/ HwPipe
  \/ SendFirstPollN(LiveSends)
  \/ SendPoll
  \/ RecvFirstPollN(LiveRecvs)
  \/ RecvPoll
  \/ ReceiveFirstPollN(LiveOther)
  \/ HwRequest
  \/ HwXfer
  \/ ReceivePoll

PipeFairSpec ==
  /\ Init
  /\ [][LiveNext]_vars
  /\ WF_vars(DMA13_DMA29)
  /\ WF_vars(HwPipe)
  /\ WF_vars(SendPoll /\ "S" \in woken)
  /\ WF_vars(RecvPoll /\ "R" \in woken)

\* ---- pipe: properties ----
Last(q) == q[Len(q)]
SendResolved == Len(sendOut') = Len(sendOut) + 1
RecvResolved == Len(recvOut') = Len(recvOut) + 1
SendRegisters == sendFut = "none" /\ sendFut' = "live"
RecvRegisters == recvFut = "none" /\ recvFut' = "live"
SendCallBegins == sendFut = "none" /\ (sendFut' = "live" \/ SendResolved)
RecvCallBegins == recvFut = "none" /\ (recvFut' = "live" \/ RecvResolved)
NoCallDropped ==
  /\ \A i \in 1 .. Len(sendOut) : sendOut[i] # "dropped"
  /\ \A i \in 1 .. Len(recvOut) : recvOut[i].res # "dropped"
OkReceives == SelectSeq(recvOut, LAMBDA o : o.res = "Ok")

\* C3: when every send call resolved Ok and the Sender was then dropped, the
\* k-th receive call returns the k-th value sent for k up to the number of
\* sends, and the call after those returns Cancelled.
C3_ValuesThenCancelled ==
  (/\ ~senderAlive
   /\ NoCallDropped
   /\ \A i \in 1 .. Len(sendOut) : sendOut[i] = "Ok") =>
    \A k \in 1 .. Len(recvOut) :
      /\ k <= Len(sendOut) => recvOut[k] = Outcome("Ok", k)
      /\ k = Len(sendOut) + 1 => recvOut[k].res = "Cancelled"

\* C4: with no call abandoned, the i-th receive that resolves Ok returns the
\* i-th value sent.
C4_Fifo ==
  NoCallDropped => \A i \in 1 .. Len(OkReceives) : OkReceives[i].val = i

\* C5: with no future abandoned, a call whose slot was Pending when the other
\* half was dropped returns Cancelled on its next poll.
C5_PendingCallCancelled ==
  [][/\ (/\ ~senderAlive
         /\ NoCallDropped
         /\ peerAtDrop = PENDING
         /\ recvFut = "live"
         /\ RecvResolved
         /\ Last(recvOut').res # "dropped") => Last(recvOut').res = "Cancelled"
     /\ (/\ ~receiverAlive
         /\ NoCallDropped
         /\ peerAtDrop = PENDING
         /\ sendFut = "live"
         /\ SendResolved
         /\ Last(sendOut') # "dropped") => Last(sendOut') = "Cancelled"]_vars

\* C6: with no future abandoned, after one half was dropped every call begun
\* on the other half resolves Cancelled on its first poll.
C6_LaterCallsCancelled ==
  [][/\ (~senderAlive /\ NoCallDropped /\ RecvCallBegins) =>
          (recvFut' = "none" /\ RecvResolved /\ Last(recvOut').res = "Cancelled")
     /\ (~receiverAlive /\ NoCallDropped /\ SendCallBegins) =>
          (sendFut' = "none" /\ SendResolved /\ Last(sendOut') = "Cancelled")]_vars

\* C7: with no future abandoned, a call that registers its half enables and
\* starts the channel exactly when the other half has a registered call that
\* no transaction has served.
C7_SecondRegistrantStarts ==
  [][/\ (NoCallDropped /\ SendRegisters) =>
          ((ERQ'[PipeCh] /\ START'[PipeCh]) <=> (recvFut = "live" /\ ~rendezvous["R"]))
     /\ (NoCallDropped /\ RecvRegisters) =>
          ((ERQ'[PipeCh] /\ START'[PipeCh]) <=> (sendFut = "live" /\ ~rendezvous["S"]))]_vars

\* C8: with no future abandoned, a send or a receive resolves Ok only after
\* the engine completed a transaction while this call and a call of the other
\* half were registered.
C8_OkOnlyAfterRendezvous ==
  [][/\ (NoCallDropped /\ SendResolved /\ Last(sendOut') = "Ok") => rendezvous["S"]
     /\ (NoCallDropped /\ RecvResolved /\ Last(recvOut').res = "Ok") => rendezvous["R"]]_vars

BothPending ==
  /\ sendFut = "live"
  /\ recvFut = "live"
  /\ SHARED_STATES[PipeCh][SENDER_STATE].state = PENDING
  /\ SHARED_STATES[PipeCh][RECEIVER_STATE].state = PENDING

\* C9: when a send call and a receive call are both pending (both slots
\* Pending) and nothing is dropped, both calls eventually resolve, and a call
\* resolves Ok.
C9_BothEventuallyOk ==
  /\ BothPending ~> (sendFut = "none")
  /\ BothPending ~> (recvFut = "none")
  /\ [][/\ SendResolved => Last(sendOut') = "Ok"
        /\ RecvResolved => Last(recvOut').res = "Ok"]_vars

\* both calls of the second pair resolved Ok with nothing dropped
C9_Witness ==
  /\ senderAlive
  /\ receiverAlive
  /\ NoCallDropped
  /\ rendezvous["S"]
  /\ rendezvous["R"]
  /\ Len(sendOut) = 2
  /\ Len(recvOut) = 2
  /\ sendOut[2] = "Ok"
  /\ recvOut[2] = Outcome("Ok", 2)

\* C11: when the channel is already enabled at a call's first poll, the call
\* resolves on that poll with ScheduledTransfer, and the poll neither enables
\* the channel nor stores a waker.
C11_ScheduledTransferOnFirstPoll ==
  (pollLog.first /\ pollLog.wasEnabled) =>
    /\ xferFut = "none"
    /\ xres = "ScheduledTransfer"
    /\ xstate = READY
    /\ pollLog.calls = <<>>

\* a call made after a pending one was forgotten found the channel enabled
C11_Witness ==
  /\ pollLog.first
  /\ pollLog.wasEnabled
  /\ xres = "ScheduledTransfer"
  /\ xferCalls > 1

\* C12: the one-shot channel has at most one armed operation outstanding: no
\* call enables it while the arming of another call stands; and no slot of
\* the one-shot channel is ever Pending (only a pipe has Pending slots).
C12_AtMostOneArmed ==
  /\ Cardinality(armedOps) <= 1
  /\ \A s \in Slots : SHARED_STATES[XferCh][s].state # PENDING

\* the second call armed the channel after the arming of the first had ended
C12_Witness ==
  /\ armedOps = {2}
  /\ xferFut = "live"
  /\ ERQ[XferCh]

\* C13: after a receive resolved Ok the channel is disabled, its completion
\* flag is clear and slot 0 holds no waker; the first poll of the next receive
\* then does what the first poll of the first receive does: it stores the
\* waker, enables the channel and suspends, or reports Setup when the hardware
\* raises an error at once.
C13_ReuseAfterCompletion ==
  /\ []((xferFut = "none" /\ xres = "Ok") =>
          /\ ~ERQ[XferCh]
          /\ ~DONE[XferCh]
          /\ SHARED_STATES[XferCh][0].waker = NoWaker)
  /\ [][(xferFut = "none" /\ xres = "Ok" /\ xferCalls' = xferCalls + 1) =>
          /\ SubSeq(pollLog'.calls, 1, 2) = <<"store", "enable">>
          /\ IF hwErrAtEnable'
               THEN xferFut' = "none" /\ xres' = "Setup" /\ xstate' = UNDEFINED
               ELSE xferFut' = "live" /\ xstate' = PENDING /\ ERQ'[XferCh]]_vars

\* a second receive is pending after the first resolved Ok
C13_Witness ==
  /\ xferCalls = 2
  /\ xferFut = "live"
  /\ xstate = PENDING
  /\ armedOps = {2}
  /\ pollLog.first
  /\ ~pollLog.wasEnabled
  /\ srcEnabled
  /\ ~ERR[XferCh]
  /\ INT[XferCh]

\* ---- start-up: dma::channels() on registers in any state ----
\* major-loop counts a descriptor may hold before the call
StaleIter == {0, 7}

\* the registers as a boot loader or an earlier program may have left them
ChannelsInit ==
  /\ chip \in Chips
  /\ ERQ \in [Chans -> BOOLEAN]
  /\ DONE \in [Chans -> BOOLEAN]
  /\ START \in [Chans -> BOOLEAN]
  /\ DREQ \in [Chans -> BOOLEAN]
  /\ INTMAJOR \in [Chans -> BOOLEAN]
  /\ CITER \in [Chans -> StaleIter]
  /\ BITER = CITER
  /\ INT = [c \in Chans |-> FALSE]
  /\ ERR = [c \in Chans |-> FALSE]
  /\ HRS = [c \in Chans |-> FALSE]
  /\ chcfg = [c \in Chans |-> "off"]
  /\ TaskInit
  /\ nvic = FALSE
  /\ channelsRet = <<>>
  /\ prog = NoProg
  /\ delay = NoDelay
  /\ pit = NoPit
  /\ gpio = NoGpio

\* dma::channels(): reset the descriptor of every channel below CHANNEL_COUNT,
\* fill the array, unmask the interrupt vectors.  The DMA instance can be
\* taken once, so the call is made once.
Channels ==
  /\ channelsRet = <<>>
  /\ channelsRet' = channels_loop(DMA_CHANNEL_INIT, CHANNEL_COUNT)
  /\ DONE' = [c \in Chans |-> AfterReset(c).DONE]
  /\ START' = [c \in Chans |-> AfterReset(c).START]
  /\ DREQ' = [c \in Chans |-> AfterReset(c).DREQ]
  /\ INTMAJOR' = [c \in Chans |-> AfterReset(c).INTMAJOR]
  /\ CITER' = [c \in Chans |-> AfterReset(c).CITER]
  /\ BITER' = [c \in Chans |-> AfterReset(c).BITER]
  /\ nvic' = TRUE
  /\ UNCHANGED <<ERQ, INT, ERR, HRS, chcfg, SHARED_STATES, woken, pipeVars, xferVars>>
  /\ UNCHANGED <<chip, prog, delay, pit, gpio>>

ChannelsNext == Channels

ChannelsSpec == ChannelsInit /\ [][ChannelsNext]_vars

\* C14: after channels() has returned, the descriptor of every channel below
\* CHANNEL_COUNT is zeroed and the channel is disabled, whatever the registers
\* held before the call
C14_DescriptorsZeroedAndDisabled ==
  channelsRet # <<>> =>
    \A c \in Chans : c < CHANNEL_COUNT =>
      /\ TCD(c) = tcd_reset(TCD(c))
      /\ ~ERQ[c]

\* channels() has returned and a channel below CHANNEL_COUNT has a zeroed
\* descriptor
C14_Witness ==
  /\ channelsRet # <<>>
  /\ \E c \in Chans : c < CHANNEL_COUNT /\ TCD(c) = tcd_reset(TCD(c))

\* C15: the array channels() returns has 32 entries; entry i is Some(channel)
\* with channel() = i for i < CHANNEL_COUNT and None for the others, and no
\* two channels have the same number
C15_ChannelsArray ==
  channelsRet # <<>> =>
    /\ DOMAIN channelsRet = 0 .. 31
    /\ \A i \in DOMAIN channelsRet :
         IF i < CHANNEL_COUNT
           THEN Cardinality(channelsRet[i]) = 1 /\ \A ch \in channelsRet[i] : channel(ch) = i
           ELSE channelsRet[i] = {}
    /\ \A i, j \in DOMAIN channelsRet : \A a \in channelsRet[i] : \A b \in channelsRet[j] :
         channel(a) = channel(b) => i = j

\* channels() has returned for the chip with sixteen channels: entry 15 is a
\* channel, entry 16 is None
C15_Witness ==
  /\ chip = "imxrt1010"
  /\ channelsRet # <<>>
  /\ channelsRet[15] # {}
  /\ channelsRet[16] = {}

\* ---- peripheral.rs: receive and transfer as functions of the buffer length ----
\* buffer lengths (usize) around the range of the 16-bit iteration fields
BufferLens == {0, 1, 2, 3, 65535, 65536, 65537, 131075}
\* size_of::<E>() of the Element types
ElementSizes == {1, 2, 4}

\* `as u16` of a usize
as_u16(n) == n % 65536

\* Channel::set_transfer_iterations on channel c: CITER and BITER
set_transfer_iterations(iter, c, iterations) == [iter EXCEPT ![c] = iterations]

\* i32::wrapping_neg
wrapping_neg(x) == IF x = (0 - 2147483647) - 1 THEN x ELSE 0 - x

\* Transfer::hardware
Transfer_hardware(address) ==
  [address |-> address, offset |-> 0, modulo |-> 0, last_address_adjustment |-> 0]

\* a Transfer::buffer whose adjustment is not negated
Transfer_buffer_no_neg(address, len, size) ==
  [address |-> address, offset |-> size, modulo |-> 0,
   last_address_adjustment |-> len * size]

\* Transfer::buffer for a slice of len elements of size bytes at address
Transfer_buffer(address, len, size) ==
  [address |-> address, offset |-> size, modulo |-> 0,
   last_address_adjustment |-> wrapping_neg(len * size)]

\* Transfer::buffer_mut
Transfer_buffer_mut(address, len, size) ==
  [address |-> address, offset |-> size, modulo |-> 0,
   last_address_adjustment |-> wrapping_neg(len * size)]

\* the address of the peripheral's data register
PeripheralAddr == Num(1075331080)
\* addresses of the caller's buffer: in RAM, and at the top of the address space
BufferAddrs == {Num(536870912), [hi |-> 2047, lo |-> Limb - 8]}

\* a call of receive or transfer is about to be made with a buffer of len
\* elements of elem bytes
ProgramInit ==
  /\ HwInit
  /\ TaskInit
  /\ PoolInit
  /\ delay = NoDelay
  /\ pit = NoPit
  /\ gpio = NoGpio
  /\ \E op \in {"receive", "transfer"}, len \in BufferLens, elem \in ElementSizes,
         addr \in BufferAddrs :
       prog = [NoProg EXCEPT !.op = op, !.len = len, !.elem = elem, !.addr = addr,
                             !.stage = "called"]

\* receive / transfer up to the await: trigger, descriptors, one element per
\* minor loop, buffer.len() as u16 iterations, enable the peripheral's request
Program ==
  /\ prog.stage = "called"
  /\ Commit(receive_setup(Cur))
  /\ CITER' = set_transfer_iterations(CITER, XferCh, as_u16(prog.len))
  /\ BITER' = set_transfer_iterations(BITER, XferCh, as_u16(prog.len))
  /\ prog' = [prog EXCEPT
                !.stage = "programmed",
                !.minorBytes = prog.elem * 1,
                !.source = IF prog.op = "receive"
                             THEN Transfer_hardware(PeripheralAddr)
                             ELSE Transfer_buffer(prog.addr, prog.len, prog.elem),
                !.destination = IF prog.op = "receive"
                                  THEN Transfer_buffer_mut(prog.addr, prog.len, prog.elem)
                                  ELSE Transfer_hardware(PeripheralAddr)]
  /\ UNCHANGED <<pipeTask, xferTask, chip, nvic, channelsRet, delay, pit, gpio>>

\* the awaited Interrupt resolved Ok: the call returns Ok(buffer.len())
ProgramOk ==
  /\ prog.stage = "programmed"
  /\ prog' = [prog EXCEPT !.stage = "returned", !.ret = "Ok", !.retLen = prog.len]
  /\ UNCHANGED <<hw, SHARED_STATES, woken, pipeVars, xferVars>>
  /\ UNCHANGED <<chip, nvic, channelsRet, CITER, BITER, delay, pit, gpio>>

ProgramNext ==
  \/ Program
  \/ ProgramOk

ProgramSpec == ProgramInit /\ [][ProgramNext]_vars

\* C16: for a buffer of L elements the channel is programmed for exactly L
\* major-loop iterations of one element each, and a successful call returns
\* Ok(L), for every L
C16_IterationsEqualLength ==
  /\ prog.stage \in {"programmed", "returned"} =>
       /\ CITER[XferCh] = prog.len
       /\ BITER[XferCh] = prog.len
       /\ prog.minorBytes = prog.elem
  /\ prog.stage = "returned" => prog.ret = "Ok" /\ prog.retLen = prog.len

\* a call with a buffer of three elements was programmed for three iterations
\* and returned Ok(3)
C16_Witness ==
  /\ prog.stage = "returned"
  /\ prog.len = 3
  /\ CITER[XferCh] = 3
  /\ prog.retLen = 3

\* ---- gpt.rs, pit.rs: the delay as a function of its argument ----
\* u32::max_value(), 2^32 - 1
U32_MAX == [hi |-> 2047, lo |-> Limb - 1]
LessEq(a, b) == a.hi < b.hi \/ (a.hi = b.hi /\ a.lo <= b.lo)

\* a * 1000 without a width
Times1000(a) ==
  LET p == a.lo * 1000
  IN [hi |-> a.hi * 1000 + p \div Limb, lo |-> p % Limb]

\* a / d for 0 < d < 1024
DividedBy(a, d) == [hi |-> a.hi \div d, lo |-> ((a.hi % d) * Limb + a.lo) \div d]

\* u32::saturating_mul(1_000)
saturating_mul_1000(a) ==
  LET x == Times1000(a)
  IN IF LessEq(x, U32_MAX) THEN x ELSE U32_MAX

\* u32::checked_div(d).unwrap_or(0)
checked_div_or_0(a, d) == IF d = 0 THEN Num(0) ELSE DividedBy(a, d)

\* saturating_sub(1)
saturating_sub_1(a) ==
  IF a.lo > 0 THEN [a EXCEPT !.lo = @ - 1]
  ELSE IF a.hi > 0 THEN [hi |-> a.hi - 1, lo |-> Limb - 1]
  ELSE a

\* u32::wrapping_add
wrapping_add(a, b) ==
  LET l == a.lo + b.lo
  IN [hi |-> (a.hi + b.hi + l \div Limb) % 2048, lo |-> l % Limb]

\* u32::try_from(duration.as_micros()).unwrap_or(u32::max_value())
micros_or_max(us) == IF LessEq(us, U32_MAX) THEN us ELSE U32_MAX

\* delay_us: the nanoseconds of the Delay
delay_us(microseconds) == saturating_mul_1000(microseconds)

\* the ticks Delay::poll counts for delay_ns at a clock of hz
Delay_ticks(delay_ns, hz) ==
  LET period_ns == 1000000000 \div hz
  IN saturating_sub_1(checked_div_or_0(delay_ns, period_ns))

\* clock frequencies of the timers: 1 MHz, the 24 MHz crystal divided by 5, 24 MHz
ClockHz == {1000000, 4800000, 24000000}
\* arguments of delay_us (u32) and, in microseconds, of delay (u128)
MicrosArgs == {Num(0), Num(1), Num(1000), Num(4294967), Num(4294968), Num(5000000), U32_MAX}
DurationArgs == {Num(1000), Num(5000000), U32_MAX, [hi |-> 2048, lo |-> 0], [hi |-> 4000, lo |-> 5]}
\* values of the free-running GPT counter when the Delay is polled
Counts == {Num(0), Num(77), U32_MAX}

DelayInit ==
  /\ HwInit
  /\ TaskInit
  /\ PoolInit
  /\ prog = NoProg
  /\ pit = NoPit
  /\ gpio = NoGpio
  /\ \E t \in {"GPT", "PIT"}, hz \in ClockHz, api \in {"delay_us", "delay"} :
       \E arg \in IF api = "delay_us" THEN MicrosArgs ELSE DurationArgs :
         delay = [timer |-> t, hz |-> hz, api |-> api, arg |-> arg, stage |-> "called",
                  delay_ns |-> Num(0), cnt |-> Num(0), reg |-> Num(0)]

\* delay_us(microseconds), or delay(duration) by way of delay_us: the Delay
DelayCall ==
  /\ delay.stage = "called"
  /\ delay' = [delay EXCEPT
                 !.stage = "created",
                 !.delay_ns = IF delay.api = "delay_us"
                                THEN delay_us(delay.arg)
                                ELSE delay_us(micros_or_max(delay.arg))]
  /\ UNCHANGED <<hw, SHARED_STATES, woken, pipeVars, xferVars>>
  /\ UNCHANGED <<chip, nvic, channelsRet, CITER, BITER, prog, pit, gpio>>

\* the first Delay::poll: the GPT writes CNT + ticks to its output compare
\* register, the PIT writes ticks to LDVAL
DelayPoll ==
  /\ delay.stage = "created"
  /\ \E cnt \in Counts :
       LET ticks == Delay_ticks(delay.delay_ns, delay.hz)
       IN delay' = [delay EXCEPT
                      !.stage = "armed",
                      !.cnt = IF delay.timer = "GPT" THEN cnt ELSE Num(0),
                      !.reg = IF delay.timer = "GPT" THEN wrapping_add(cnt, ticks)
                                                     ELSE ticks]
  /\ UNCHANGED <<hw, SHARED_STATES, woken, pipeVars, xferVars>>
  /\ UNCHANGED <<chip, nvic, channelsRet, CITER, BITER, prog, pit, gpio>>

DelayNext ==
  \/ DelayCall
  \/ DelayPoll

DelaySpec == DelayInit /\ [][DelayNext]_vars

\* the microseconds a call asks for: the argument of delay_us, and for delay
\* the duration's microseconds or u32::MAX, whichever is less
AskedMicros ==
  IF delay.api = "delay_us" THEN delay.arg
  ELSE IF LessEq(delay.arg, U32_MAX) THEN delay.arg ELSE U32_MAX

\* the clock periods in that many microseconds, less the one the timers
\* take off, computed without a width
TicksFor(us, hz) == saturating_sub_1(DividedBy(Times1000(us), 1000000000 \div hz))

\* C18: the tick count the timer is programmed with corresponds to the
\* microseconds asked for, for every u32 argument of delay_us, and for delay to
\* the duration's microseconds saturated at u32::MAX
C18_TicksMatchMicros ==
  delay.stage = "armed" =>
    delay.reg = IF delay.timer = "GPT"
                  THEN wrapping_add(delay.cnt, TicksFor(AskedMicros, delay.hz))
                  ELSE TicksFor(AskedMicros, delay.hz)

\* delay_us(1000) on a 1 MHz PIT was programmed with 999 ticks
C18_Witness ==
  /\ delay.stage = "armed"
  /\ delay.timer = "PIT"
  /\ delay.api = "delay_us"
  /\ delay.arg = Num(1000)
  /\ delay.hz = 1000000
  /\ delay.reg = Num(999)

\* ---- one-shot receive under fair scheduling ----
\* the handler runs while an interrupt request is set, the engine serves a
\* requested channel, and the executor polls a task whose waker was invoked
XferFairSpec ==
  /\ Init
  /\ [][XferNext]_vars
  /\ WF_vars(DMA13_DMA29)
  /\ WF_vars(HwXfer)
  /\ WF_vars(ReceivePoll /\ "X" \in woken)

\* the engine completed the transfer that the pending receive armed
C17_CompletionReported ==
  xferFut = "live" /\ xstate = PENDING /\ DONE[XferCh] /\ armedOps = {}
\* the hardware reported an error for the channel of a pending receive
C17_ErrorReported == xferFut = "live" /\ xstate = PENDING /\ ERR[XferCh]

\* C17: an operation that armed its channel resolves once the hardware has
\* reported completion or an error for the channel; an error raised after the
\* operation became Pending ends it too
C17_ArmedOpResolves ==
  /\ C17_CompletionReported ~> (xferFut = "none")
  /\ C17_ErrorReported ~> (xferFut = "none")

\* an error was reported for the channel of a receive that is Pending
C17_Witness == C17_ErrorReported /\ ~DONE[XferCh] /\ ERQ[XferCh]

\* C19: the state of an Interrupt moves only Ready -> Pending -> Complete or
\* Ready -> Setup error (UNDEFINED); Complete and Setup error are final, and a
\* Pending Interrupt never goes back to Ready.  A call's first poll starts
\* from the Ready state interrupt() constructs; later polls of the call start
\* from the state the poll before left.
C19_StateMoves ==
  [][/\ xferCalls' = xferCalls =>
          \/ xstate' = xstate
          \/ xstate = PENDING /\ xstate' = COMPLETE /\ xres' = "Ok"
     /\ xferCalls' # xferCalls =>
          \/ xstate' = PENDING /\ xferFut' = "live"
          \/ xstate' = UNDEFINED /\ xres' = "Setup" /\ xferFut' = "none"
          \/ xstate' = READY /\ xres' = "ScheduledTransfer" /\ xferFut' = "none"
     /\ xferFut' = "live" => xstate' = PENDING]_vars

\* a receive went from Ready through Pending to Complete
C19_Witness == xstate = COMPLETE /\ xres = "Ok" /\ xferFut = "none" /\ ~pollLog.first

\* the position of the first write named w in a poll's writes, 0 when absent
WriteAt(calls, w) ==
  IF \E i \in 1 .. Len(calls) : calls[i] = w
    THEN CHOOSE i \in 1 .. Len(calls) :
           calls[i] = w /\ \A j \in 1 .. (i - 1) : calls[j] # w
    ELSE 0

C21_OkIffSlotComplete ==
  [][ReceivePoll =>
       ((xferFut' = "none" /\ xres' = "Ok")
          <=> SHARED_STATES[XferCh][0].state = COMPLETE)]_vars

\* C21: on a poll after the first, a Pending receive resolves Ok if and only
\* if the completion flag of its channel is set; on resolving it clears the
\* flag; otherwise it stays suspended and writes nothing
C21_OkIffDone ==
  [][ReceivePoll =>
       IF DONE[XferCh]
         THEN /\ xferFut' = "none"
              /\ xres' = "Ok"
              /\ xstate' = COMPLETE
              /\ pollLog'.calls = <<"clear_complete">>
              /\ ~DONE'[XferCh]
         ELSE /\ xferFut' = "live"
              /\ xstate' = PENDING
              /\ pollLog'.calls = <<>>
              /\ UNCHANGED <<hw, SHARED_STATES>>]_vars

\* a later poll found the completion flag set, cleared it and resolved Ok
C21_Witness ==
  /\ xres = "Ok"
  /\ xferFut = "none"
  /\ ~pollLog.first
  /\ pollLog.calls = <<"clear_complete">>
  /\ ~DONE[XferCh]
  /\ SHARED_STATES[XferCh][0].state = COMPLETE

\* the wakers parked in the slots of the channels whose completion flag is set
ParkedOnComplete ==
  {SHARED_STATES[c][sl].waker : c \in {d \in Chans : DONE[d]}, sl \in Slots} \ {NoWaker}

\* C22: a run of the handler clears the interrupt request of its channels;
\* for a channel whose completion flag is set it marks every slot Complete,
\* takes each parked waker and invokes it; for a channel whose flag is clear
\* it changes no slot and invokes nothing
C22_HandlerRun ==
  [][DMA13_DMA29 =>
       /\ \A c \in Chans :
            /\ ~INT'[c]
            /\ IF DONE[c]
                 THEN \A sl \in Slots :
                        SHARED_STATES'[c][sl] = [state |-> COMPLETE, waker |-> NoWaker]
                 ELSE SHARED_STATES'[c] = SHARED_STATES[c]
       /\ woken' = woken \cup ParkedOnComplete
       /\ UNCHANGED <<ERQ, DONE, ERR, HRS, START, DREQ, INTMAJOR, chcfg>>]_vars

\* the handler ran on the pipe's completion with both halves parked: both
\* slots are Complete and empty, both tasks were woken
C22_Witness ==
  /\ DONE[PipeCh]
  /\ ~INT[PipeCh]
  /\ \A sl \in Slots : SHARED_STATES[PipeCh][sl] = [state |-> COMPLETE, waker |-> NoWaker]
  /\ {"S", "R"} \subseteq woken
  /\ ~DONE[XferCh]
  /\ SHARED_STATES[XferCh][0].state = UNDEFINED

\* one run of the handler of the shared vector on the machine state m
HandlerRun(m) == on_interrupt(on_interrupt(m, PipeCh), XferCh)

\* C23: the handler is idempotent.  A second run right after a first leaves
\* the registers and the shared table as the first left them, finds no waker
\* to invoke in a slot of a completed channel, and neither run touches the
\* descriptor addresses or what they point to
C23_HandlerIdempotent ==
  LET once == HandlerRun(Cur)
      twice == HandlerRun(once)
  IN /\ twice = once
     /\ \A c \in Chans : \A sl \in Slots :
          is_complete(once, c) => once.SH[c][sl].waker = NoWaker
     /\ once.tcdSrc = tcdSrc
     /\ once.tcdDstLive = tcdDstLive
     /\ once.src = srcEnabled

\* the handler is about to run on a completion of the pipe with both halves
\* parked, so that a run changes the table and invokes two wakers
C23_Witness ==
  /\ INT[PipeCh]
  /\ DONE[PipeCh]
  /\ SHARED_STATES[PipeCh][SENDER_STATE].waker = "S"
  /\ SHARED_STATES[PipeCh][RECEIVER_STATE].waker = "R"
  /\ HandlerRun(Cur) # Cur

\* C24: a slot of the pipe whose status is Dropped is Dropped in every later
\* state, whatever call, drop or handler run happens.  Stated for the steps
\* taken while the pipe's own channel has no interrupt request pending, so
\* that a handler run among them is one the other channel of the vector
\* triggered.
C24_DroppedIsPermanent ==
  [][\A sl \in Slots :
       (SHARED_STATES[PipeCh][sl].state = DROPPED /\ ~INT[PipeCh]) =>
         SHARED_STATES'[PipeCh][sl].state = DROPPED]_vars

\* a half of the pipe was dropped and its slot is Dropped
C24_Witness ==
  /\ ~senderAlive
  /\ SHARED_STATES[PipeCh][SENDER_STATE].state = DROPPED
  /\ receiverAlive

\* what dropping the half of slot own does to the table and to the woken
\* tasks, peer being the other slot and t the task of the other half
DropEffect(own, peer, t, peerFut) ==
  /\ SHARED_STATES'[PipeCh][own].state = DROPPED
  /\ SHARED_STATES'[PipeCh][peer].state = SHARED_STATES[PipeCh][peer].state
  /\ SHARED_STATES'[PipeCh][peer].waker = NoWaker
  /\ woken' = woken \cup ({SHARED_STATES[PipeCh][peer].waker} \ {NoWaker})
  /\ (peerFut = "live" /\ SHARED_STATES[PipeCh][peer].state = PENDING) => t \in woken'
  /\ UNCHANGED <<hw, tcdSrc, tcdDstLive>>

\* C25: dropping a half of the pipe sets its own slot to Dropped and, when a
\* waker is parked in the other slot, takes it and invokes it, so that a peer
\* suspended in Pending is polled again; with no waker parked it invokes
\* nothing
C25_DropWakesPeer ==
  [][/\ SenderDrop => DropEffect(SENDER_STATE, RECEIVER_STATE, "R", recvFut)
     /\ ReceiverDrop => DropEffect(RECEIVER_STATE, SENDER_STATE, "S", sendFut)]_vars

\* the Sender was dropped while a receive was suspended in Pending: the
\* receiving task was woken and its waker taken
C25_Witness ==
  /\ ~senderAlive
  /\ peerAtDrop = PENDING
  /\ recvFut = "live"
  /\ "R" \in woken
  /\ SHARED_STATES[PipeCh][RECEIVER_STATE] = [state |-> PENDING, waker |-> NoWaker]
  /\ SHARED_STATES[PipeCh][SENDER_STATE].state = DROPPED

\* C26: the halves of the pipe write disjoint slots.  No step of the Sender
\* or of a Send changes the status of slot 1, no step of the Receiver or of
\* a Receive changes the status of slot 0, and the only write of a half to
\* the other slot is the taking of the parked waker when the half is dropped
C26_DisjointSlots ==
  [][/\ (SendFirstPoll \/ SendPoll \/ SendCancel) =>
          SHARED_STATES'[PipeCh][RECEIVER_STATE] = SHARED_STATES[PipeCh][RECEIVER_STATE]
     /\ SenderDrop =>
          /\ SHARED_STATES'[PipeCh][RECEIVER_STATE].state
               = SHARED_STATES[PipeCh][RECEIVER_STATE].state
          /\ SHARED_STATES'[PipeCh][RECEIVER_STATE].waker = NoWaker
     /\ (RecvFirstPoll \/ RecvPoll \/ RecvCancel) =>
          SHARED_STATES'[PipeCh][SENDER_STATE] = SHARED_STATES[PipeCh][SENDER_STATE]
     /\ ReceiverDrop =>
          /\ SHARED_STATES'[PipeCh][SENDER_STATE].state
               = SHARED_STATES[PipeCh][SENDER_STATE].state
          /\ SHARED_STATES'[PipeCh][SENDER_STATE].waker = NoWaker]_vars

\* a send call ended and its future was dropped while a receive stays parked
\* in slot 1
C26_Witness ==
  /\ Len(sendOut) > 0
  /\ sendFut = "none"
  /\ SHARED_STATES[PipeCh][SENDER_STATE].state = UNDEFINED
  /\ SHARED_STATES[PipeCh][RECEIVER_STATE] = [state |-> PENDING, waker |-> "R"]

\* a poll of a half enables and starts the pipe's channel
PipeStarts == ~ERQ[PipeCh] /\ ERQ'[PipeCh] /\ START'[PipeCh]

\* C27: at most one transaction of the pipe is in flight.  The channel keeps
\* the configuration pipe::new gave it; when a poll enables and starts it no
\* earlier start is still waiting for the engine; and the completion of the
\* transaction leaves the channel disabled
C27_OneTransactionInFlight ==
  /\ [](chcfg[PipeCh] = "always" /\ INTMAJOR[PipeCh] /\ DREQ[PipeCh])
  /\ [][PipeStarts => ~START[PipeCh]]_vars
  /\ [][HwPipe => (~ERQ'[PipeCh] /\ ~START'[PipeCh] /\ DONE'[PipeCh])]_vars

\* the second transaction of the pipe is in flight after the first completed
C27_Witness ==
  /\ ERQ[PipeCh]
  /\ START[PipeCh]
  /\ sendFut = "live"
  /\ recvFut = "live"
  /\ Len(sendOut) = 1
  /\ Len(recvOut) = 1
  /\ rendezvous["S"]

\* an i32 as the u32 of the same bits
AsU32(x) ==
  IF x >= 0 THEN Num(x)
  ELSE LET m == Num((0 - x) - 1)
       IN [hi |-> 2047 - m.hi, lo |-> (Limb - 1) - m.lo]

\* the address the engine holds after n steps of the descriptor's offset and
\* the last-address adjustment, modulo 2^32
AfterPass(t, n) ==
  wrapping_add(wrapping_add(t.address, Num(n * t.offset)), AsU32(t.last_address_adjustment))

\* the descriptor of the peripheral end and of the buffer end of the call
HardwareEnd == IF prog.op = "receive" THEN prog.source ELSE prog.destination
BufferEnd == IF prog.op = "receive" THEN prog.destination ELSE prog.source

\* C28: the descriptor of a hardware endpoint has offset 0, modulo 0 and
\* adjustment 0; the descriptor of a buffer of L elements of S bytes has
\* offset S, modulo 0 and adjustment -(L*S), so that the address after L
\* steps of S bytes plus the adjustment is the starting address modulo 2^32
C28_TransferDescriptors ==
  prog.stage \in {"programmed", "returned"} =>
    /\ HardwareEnd = [address |-> PeripheralAddr, offset |-> 0, modulo |-> 0,
                      last_address_adjustment |-> 0]
    /\ BufferEnd.address = prog.addr
    /\ BufferEnd.offset = prog.elem
    /\ BufferEnd.modulo = 0
    /\ BufferEnd.last_address_adjustment = 0 - (prog.len * prog.elem)
    /\ AfterPass(BufferEnd, prog.len) = prog.addr

\* a transfer from a buffer of 65537 four-byte elements at the top of the
\* address space was programmed
C28_Witness ==
  /\ prog.stage = "programmed"
  /\ prog.op = "transfer"
  /\ prog.len = 65537
  /\ prog.elem = 4
  /\ prog.addr # Num(536870912)
  /\ prog.source.last_address_adjustment = 0 - 262148

\* C29: a receive that fails with ScheduledTransfer leaves the transfer
\* scheduled on the channel as it was: the channel is still enabled, and its
\* descriptor, loop counts, multiplexer trigger, peripheral request and slot
\* are what they were before the call
C29_ScheduledTransferUndisturbed ==
  [][(xferCalls' = xferCalls + 1 /\ xres' = "ScheduledTransfer") =>
       /\ ERQ'[XferCh]
       /\ UNCHANGED <<DONE, START, DREQ, INTMAJOR, chcfg, CITER, BITER>>
       /\ srcEnabled' = srcEnabled
       /\ SHARED_STATES'[XferCh] = SHARED_STATES[XferCh]]_vars

\* a receive returned ScheduledTransfer and the channel it found enabled is
\* disabled
C29_Witness ==
  /\ xres = "ScheduledTransfer"
  /\ pollLog.wasEnabled
  /\ ~ERQ[XferCh]
  /\ ~srcEnabled

\* the last receive was forgotten while Pending and the engine has not
\* completed the transfer it armed
ForgottenArmed == xferFut = "none" /\ xres = "Forgotten" /\ xferCalls \in armedOps

\* C30: after a Pending receive is forgotten no cleanup has run: the channel
\* is still enabled and configured, the peripheral's request is still
\* enabled and the waker is still parked, so that the engine can still serve
\* a request of the peripheral and write to the buffer of the future that is
\* gone
C30_ForgetLeavesChannelArmed ==
  ForgottenArmed =>
    /\ ERQ[XferCh]
    /\ srcEnabled
    /\ chcfg[XferCh] = "hw"
    /\ DREQ[XferCh] /\ INTMAJOR[XferCh]
    /\ SHARED_STATES[XferCh][0].waker = "X" \/ "X" \in woken
    /\ (HRS[XferCh] /\ ~ERR[XferCh]) => ENABLED HwXfer
    /\ ~HRS[XferCh] => ENABLED HwRequest

\* the peripheral requests a transfer on the channel of a forgotten receive
C30_Witness ==
  /\ ForgottenArmed
  /\ HRS[XferCh]
  /\ ~ERR[XferCh]
  /\ ~DONE[XferCh]
  /\ ERQ[XferCh]

\* the handler is about to run for the completion of the transfer that the
\* live receive call armed
CompletionOfLiveCall ==
  /\ xferFut = "live"
  /\ xstate = PENDING
  /\ xres = "none"
  /\ DONE[XferCh] /\ INT[XferCh]
  /\ armedOps = {}
  /\ ~ERR[XferCh]

\* C31: no wake-up of a one-shot operation is lost: when the handler runs
\* for the completion of the live call's transfer, the waker given to the
\* call's most recent poll is invoked (or its task was woken already), also
\* when the call was polled again while Pending with a different waker
C31_LastWakerInvoked ==
  [][(DMA13_DMA29 /\ CompletionOfLiveCall) => pollLog.waker \in woken']_vars

\* the handler has run for the completion of a call that was last polled
\* with the second waker
C31_Witness ==
  /\ xferFut = "live"
  /\ pollLog.waker = "Y"
  /\ DONE[XferCh] /\ ~INT[XferCh]
  /\ SHARED_STATES[XferCh][0].state = COMPLETE
  /\ woken = {"X"}

\* the Send future whose value the source half addresses and the Receive
\* future whose buffer the destination half addresses are both alive
PipeBuffersLive ==
  /\ sendFut = "live" /\ tcdSrc # 0
  /\ recvFut = "live" /\ tcdDstLive

\* C32: whenever the pipe's channel is enabled both futures whose addresses
\* are in the descriptor are alive; dropping a Send or Receive future
\* disables the channel and resets its slot to Undefined; and the engine
\* never runs the channel with the address of a dropped future's buffer
C32_EnabledOnlyWithLiveFutures ==
  [][/\ ERQ'[PipeCh] => PipeBuffersLive'
     /\ (sendFut = "live" /\ sendFut' = "none") =>
           ~ERQ'[PipeCh] /\ SHARED_STATES'[PipeCh][SENDER_STATE].state = UNDEFINED
     /\ (recvFut = "live" /\ recvFut' = "none") =>
           ~ERQ'[PipeCh] /\ SHARED_STATES'[PipeCh][RECEIVER_STATE].state = UNDEFINED
     /\ HwPipe => PipeBuffersLive]_vars

\* the engine is requested to run the pipe's channel after the Send future
\* whose value the source half addresses was dropped
C32_Witness ==
  /\ START[PipeCh]
  /\ ~ERQ[PipeCh]
  /\ sendFut = "none"
  /\ tcdSrc = 0
  /\ recvFut = "live" /\ tcdDstLive

\* the send call of value v resolved Ok, or is pending and can still do so
SendOkOrPending(v) ==
  IF v \in 1 .. Len(sendOut) THEN sendOut[v] = "Ok"
                              ELSE v = NextValue /\ sendFut = "live"

\* a receive call returned the value v, or is pending with v in its buffer
ReturnedOrPending(v) ==
  \/ \E j \in 1 .. Len(recvOut) : recvOut[j] = Outcome("Ok", v)
  \/ recvFut = "live" /\ rxBuf = v

\* C33: delivery is all or nothing for a pair: a receive call returns Ok(v)
\* only for a value v whose send call resolves Ok, and a send call resolves
\* Ok only if a receive call returns its value, also when one of the futures
\* is dropped after the transaction completed and before it was polled
C33_AllOrNothing ==
  /\ \A j \in 1 .. Len(recvOut) :
       recvOut[j].res = "Ok" => SendOkOrPending(recvOut[j].val)
  /\ \A k \in 1 .. Len(sendOut) :
       sendOut[k] = "Ok" => ReturnedOrPending(k)

\* a receive call returned the value of a send call whose future was dropped
\* after the transaction completed
C33_Witness ==
  /\ Len(sendOut) >= 1 /\ sendOut[1] = "dropped"
  /\ Len(recvOut) >= 1 /\ recvOut[1] = Outcome("Ok", 1)
  /\ rendezvous["R"]

Parked(slot, t) == SHARED_STATES[PipeCh][slot] = [state |-> PENDING, waker |-> t]

\* the receive call is pending, no send call is registered and no
\* transaction has served the receive call; and the same for a send call
RecvWaitsForSend ==
  /\ senderAlive /\ receiverAlive
  /\ recvFut = "live" /\ sendFut = "none" /\ ~rendezvous["R"]
SendWaitsForRecv ==
  /\ senderAlive /\ receiverAlive
  /\ sendFut = "live" /\ recvFut = "none" /\ ~rendezvous["S"]

\* C34: when a pending send is cancelled while the receive is pending, the
\* sender's slot returns to Undefined and the receive stays Pending with its
\* handle parked and its buffer unwritten until a later send starts the
\* transaction that completes it; and the same for a cancelled receive and a
\* pending send
C34_CancelLeavesPeerPending ==
  [][/\ (SendCancel /\ Parked(RECEIVER_STATE, "R")) =>
          /\ SHARED_STATES'[PipeCh][SENDER_STATE].state = UNDEFINED
          /\ Parked(RECEIVER_STATE, "R")'
     /\ (RecvCancel /\ Parked(SENDER_STATE, "S")) =>
          /\ SHARED_STATES'[PipeCh][RECEIVER_STATE].state = UNDEFINED
          /\ Parked(SENDER_STATE, "S")'
     /\ RecvWaitsForSend' => (Parked(RECEIVER_STATE, "R") /\ rxBuf = Uninit)'
     /\ SendWaitsForRecv' => Parked(SENDER_STATE, "S")']_vars

\* a pending receive whose send was cancelled before any transaction is
\* completed with no send registered
C34_Witness ==
  /\ RecvWaitsForSend
  /\ Len(sendOut) >= 1 /\ sendOut[Len(sendOut)] = "dropped"
  /\ SHARED_STATES[PipeCh][RECEIVER_STATE].state = COMPLETE

\* C35: the unreachable!() arms of the three poll functions are never taken:
\* no call ends in one, an Interrupt that can be polled is in state Ready or
\* Pending, and a Send or Receive that can be polled again finds its own
\* slot Pending or Complete (Ready on its first poll) or the peer's slot
\* Dropped
C35_UnreachableNeverReached ==
  /\ xres # "unreachable"
  /\ \A i \in 1 .. Len(sendOut) : sendOut[i] # "unreachable"
  /\ \A i \in 1 .. Len(recvOut) : recvOut[i].res # "unreachable"
  /\ xferFut = "live" => xstate \in {READY, PENDING}
  /\ sendFut = "live" =>
       \/ sender_state(Cur) \in {READY, PENDING, COMPLETE}
       \/ receiver_state(Cur) = DROPPED
  /\ recvFut = "live" =>
       \/ receiver_state(Cur) \in {READY, PENDING, COMPLETE}
       \/ sender_state(Cur) = DROPPED

\* calls of all three kinds were polled to their end around handler runs, a
\* dropped future and a dropped half, and a send is still to be polled
C35_Witness ==
  /\ xres = "Ok"
  /\ \E i \in 1 .. Len(sendOut) : sendOut[i] = "dropped"
  /\ \E i \in 1 .. Len(recvOut) : recvOut[i].res = "Ok"
  /\ ~receiverAlive
  /\ sendFut = "live"
  /\ sender_state(Cur) = COMPLETE

\* ---- pit.rs: the Delay future, the timer channel and the PIT handler ----
\* fields of pit: TIF, TIE, TEN, LDVAL, CVAL are the channel's registers,
\* WAKERS the static array, fut the Delay future, delay_ns its field; history:
\* calls counts the delays called on the channel, started is the call that
\* enabled the timer last, raisedBy the call whose countdown raised the flag
\* that is set (0: flag clear), res how the last delay resolved
PitHz == 1000000
PitMicros == {1, 3}
PitTask(c) == IF c = 0 THEN "T0" ELSE "T1"

\* Delay::poll on channel c, polled with waker w
pit_Delay_poll(p, c, w) ==
  IF p.TIF[c]
    THEN [p |-> [p EXCEPT !.TIF[c] = FALSE], out |-> "Ready"]
    ELSE IF p.TIE[c] \/ p.TEN[c]
      THEN [p |-> p, out |-> "Pending"]
      ELSE LET ticks == Delay_ticks(p.delay_ns[c], PitHz).lo
           IN [p |-> [p EXCEPT !.LDVAL[c] = ticks,
                               !.WAKERS[c] = w,
                               !.TIE[c] = TRUE,
                               !.TEN[c] = TRUE,
                               !.CVAL[c] = ticks],
               out |-> "Pending"]

\* Delay::drop: TCTRL = 0
pit_Delay_drop(p, c) == [p EXCEPT !.TIE[c] = FALSE, !.TEN[c] = FALSE]

\* the handler's for_each body for a channel whose flag is set
PIT_channel(p, c) ==
  IF p.TIF[c]
    THEN [p EXCEPT !.TIE[c] = FALSE,
                   !.TEN[c] = FALSE,
                   !.WAKERS[c] = NoWaker,
                   !.woken = IF p.WAKERS[c] = NoWaker THEN @ ELSE @ \cup {p.WAKERS[c]}]
    ELSE p

\* what a poll of the call numbered n leaves: Pending keeps the future, and a
\* poll that enabled the timer started the countdown; Ready drops the future
AfterPoll(r, c, n, first) ==
  IF r.out = "Pending"
    THEN [r.p EXCEPT !.fut[c] = "live",
                     !.started[c] = IF r.p.TEN[c] /\ ~pit.TEN[c] THEN n ELSE @]
    ELSE [pit_Delay_drop(r.p, c) EXCEPT
            !.fut[c] = "none",
            !.res[c] = [call |-> n, first |-> first, raisedBy |-> pit.raisedBy[c]],
            !.raisedBy[c] = 0]

\* delay_us(us) on channel c and the first poll of its Delay
PitDelayFirstPoll ==
  /\ \E c \in PitChans, us \in PitMicros :
       /\ pit.fut[c] = "none"
       /\ pit.calls[c] < MaxDelays
       /\ LET n == pit.calls[c] + 1
              p0 == [pit EXCEPT !.delay_ns[c] = delay_us(Num(us)),
                                !.calls[c] = n,
                                !.woken = @ \ {PitTask(c)}]
          IN pit' = AfterPoll(pit_Delay_poll(p0, c, PitTask(c)), c, n, TRUE)
  /\ UNCHANGED <<hw, SHARED_STATES, woken, pipeVars, xferVars>>
  /\ UNCHANGED <<chip, nvic, channelsRet, CITER, BITER, prog, delay, gpio>>

\* a later poll of the Delay of channel c
PitDelayPoll ==
  /\ \E c \in PitChans :
       /\ pit.fut[c] = "live"
       /\ LET p0 == [pit EXCEPT !.woken = @ \ {PitTask(c)}]
          IN pit' = AfterPoll(pit_Delay_poll(p0, c, PitTask(c)), c, pit.calls[c], FALSE)
  /\ UNCHANGED <<hw, SHARED_STATES, woken, pipeVars, xferVars>>
  /\ UNCHANGED <<chip, nvic, channelsRet, CITER, BITER, prog, delay, gpio>>

\* the pending Delay of channel c is dropped by its owner
PitDelayDrop ==
  /\ \E c \in PitChans :
       /\ pit.fut[c] = "live"
       /\ pit' = [pit_Delay_drop(pit, c) EXCEPT !.fut[c] = "none"]
  /\ UNCHANGED <<hw, SHARED_STATES, woken, pipeVars, xferVars>>
  /\ UNCHANGED <<chip, nvic, channelsRet, CITER, BITER, prog, delay, gpio>>

\* an enabled timer counts one period; at zero it raises the flag and reloads
PitTick ==
  /\ \E c \in PitChans :
       /\ pit.TEN[c]
       /\ pit' = IF pit.CVAL[c] = 0
                   THEN [pit EXCEPT !.TIF[c] = TRUE,
                                    !.CVAL[c] = pit.LDVAL[c],
                                    !.raisedBy[c] = pit.started[c]]
                   ELSE [pit EXCEPT !.CVAL[c] = @ - 1]
  /\ UNCHANGED <<hw, SHARED_STATES, woken, pipeVars, xferVars>>
  /\ UNCHANGED <<chip, nvic, channelsRet, CITER, BITER, prog, delay, gpio>>

\* the PIT interrupt handler; the vector is requested while a channel's flag
\* and interrupt enable are both set
PIT ==
  /\ nvic
  /\ \E c \in PitChans : pit.TIF[c] /\ pit.TIE[c]
  /\ pit' = PIT_channel(PIT_channel(pit, 0), 1)
  /\ UNCHANGED <<hw, SHARED_STATES, woken, pipeVars, xferVars>>
  /\ UNCHANGED <<chip, nvic, channelsRet, CITER, BITER, prog, delay, gpio>>

PitNext ==
  \/ PitDelayFirstPoll
  \/ PitDelayPoll
  \/ PitDelayDrop
  \/ PitTick
  \/ PIT

PitSpec == Init /\ [][PitNext]_vars

\* C36: a PIT delay resolves only after its channel's timeout flag was raised
\* by a countdown that this delay started: never on its first poll, and never
\* on a flag that the countdown of an earlier delay left set
C36_ResolvesOnOwnTimeout ==
  \A c \in PitChans :
    pit.res[c].call # 0 =>
      /\ ~pit.res[c].first
      /\ pit.res[c].raisedBy = pit.res[c].call

\* a delay resolved on its first poll, on the flag raised by the countdown of
\* the delay before it, which was dropped after the timer elapsed
C36_Witness ==
  \E c \in PitChans :
    /\ pit.res[c] = [call |-> 2, first |-> TRUE, raisedBy |-> 1]
    /\ pit.fut[c] = "none"
    /\ ~pit.TEN[c]

\* ---- gpio.rs: wait_for, its Interrupt future and the GPIO handler ----
\* fields of gpio: ISR and IMR are the module's registers, WAKERS the row of
\* the static array for the module: per pin NullPtr or the number of the
\* wait_for call whose Interrupt.waker the pointer addresses.  fut is the
\* number of the pin's live call (0: none), waker the field Interrupt.waker
\* of that future.  History: calls counts the wait_for calls on the pin,
\* dangling holds the pins whose pointer a handler run dereferenced when the
\* future that registered it was gone.
GpioTask(pin) == IF pin = 0 THEN "G0" ELSE "G1"

\* Interrupt::poll of the call numbered n on the pin, polled with waker w
gpio_Interrupt_poll(g, pin, n, is_ready, w) ==
  IF is_ready
    THEN [g |-> [g EXCEPT !.waker[pin] = w,
                          !.WAKERS[pin] = n,
                          !.IMR[pin] = TRUE],
          out |-> "Pending"]
    ELSE IF g.waker[pin] = NoWaker
      THEN [g |-> g, out |-> "Ready"]
      ELSE [g |-> g, out |-> "Pending"]

\* the pins on_interrupt takes a waker for: status bit set, pointer not null
Served(g) == {pin \in GpioPins : g.ISR[pin] /\ g.WAKERS[pin] # NullPtr}

\* on_interrupt for the module: clear the status bits read, mask them, and
\* take and invoke the waker behind every served pin's pointer.  stale: what
\* the read through a pointer to a dropped future yields, per pin
gpio_on_interrupt(g, stale) ==
  LET isr == g.ISR
      live == {pin \in Served(g) : g.WAKERS[pin] = g.fut[pin]}
      dead == Served(g) \ live
      taken == {g.waker[pin] : pin \in live} \cup {stale[pin] : pin \in dead}
  IN [g EXCEPT !.ISR = [pin \in GpioPins |-> FALSE],
               !.IMR = [pin \in GpioPins |-> g.IMR[pin] /\ ~isr[pin]],
               !.waker = [pin \in GpioPins |-> IF pin \in live THEN NoWaker ELSE @[pin]],
               !.woken = @ \cup (taken \ {NoWaker}),
               !.dangling = @ \cup dead]

\* wait_for on a pin and the first poll of its Interrupt
GpioWaitFirstPoll ==
  /\ \E pin \in GpioPins :
       /\ gpio.fut[pin] = 0
       /\ gpio.calls[pin] < MaxWaits
       /\ LET n == gpio.calls[pin] + 1
              g0 == [gpio EXCEPT !.calls[pin] = n,
                                 !.fut[pin] = n,
                                 !.waker[pin] = NoWaker,
                                 !.woken = @ \ {GpioTask(pin)}]
          IN gpio' = gpio_Interrupt_poll(g0, pin, n, TRUE, GpioTask(pin)).g
  /\ UNCHANGED <<hw, SHARED_STATES, woken, pipeVars, xferVars>>
  /\ UNCHANGED <<chip, nvic, channelsRet, CITER, BITER, prog, delay, pit>>

\* a later poll; a future that resolves is dropped, and Interrupt has no Drop
GpioWaitPoll ==
  /\ \E pin \in GpioPins :
       /\ gpio.fut[pin] # 0
       /\ LET g0 == [gpio EXCEPT !.woken = @ \ {GpioTask(pin)}]
              r == gpio_Interrupt_poll(g0, pin, gpio.fut[pin], FALSE, GpioTask(pin))
          IN gpio' = IF r.out = "Ready"
                       THEN [r.g EXCEPT !.fut[pin] = 0, !.resolved[pin] = @ + 1]
                       ELSE r.g
  /\ UNCHANGED <<hw, SHARED_STATES, woken, pipeVars, xferVars>>
  /\ UNCHANGED <<chip, nvic, channelsRet, CITER, BITER, prog, delay, pit>>

\* the pending future is dropped by its owner: no Drop impl, nothing is undone
GpioWaitDrop ==
  /\ \E pin \in GpioPins :
       /\ gpio.fut[pin] # 0
       /\ gpio' = [gpio EXCEPT !.fut[pin] = 0, !.waker[pin] = NoWaker]
  /\ UNCHANGED <<hw, SHARED_STATES, woken, pipeVars, xferVars>>
  /\ UNCHANGED <<chip, nvic, channelsRet, CITER, BITER, prog, delay, pit>>

\* the pin meets its trigger: the status bit is set, masked or not
GpioPinEvent ==
  /\ \E pin \in GpioPins :
       /\ ~gpio.ISR[pin]
       /\ gpio' = [gpio EXCEPT !.ISR[pin] = TRUE]
  /\ UNCHANGED <<hw, SHARED_STATES, woken, pipeVars, xferVars>>
  /\ UNCHANGED <<chip, nvic, channelsRet, CITER, BITER, prog, delay, pit>>

\* the module's handler; the vector is requested while a pin's status bit is
\* set and unmasked
GPIO1_Combined_0_15 ==
  /\ \E pin \in GpioPins : gpio.ISR[pin] /\ gpio.IMR[pin]
  /\ \E stale \in [GpioPins -> {NoWaker, "G0", "G1"}] :
       /\ \A pin \in GpioPins :
            (pin \notin Served(gpio) \/ gpio.WAKERS[pin] = gpio.fut[pin]) =>
              stale[pin] = NoWaker
       /\ gpio' = gpio_on_interrupt(gpio, stale)
  /\ UNCHANGED <<hw, SHARED_STATES, woken, pipeVars, xferVars>>
  /\ UNCHANGED <<chip, nvic, channelsRet, CITER, BITER, prog, delay, pit>>

GpioNext ==
  \/ GpioWaitFirstPoll
  \/ GpioWaitPoll
  \/ GpioWaitDrop
  \/ GpioPinEvent
  \/ GPIO1_Combined_0_15

GpioSpec == Init /\ [][GpioNext]_vars

\* C37: the GPIO handler takes a waker only from storage owned by a wait_for
\* future that is alive: no handler run dereferences the pointer registered
\* by a future that has completed or was dropped
C37_HandlerDerefsLiveFuture == gpio.dangling = {}

\* a handler run dereferenced the pointer of a pin whose future had resolved
C37_Witness ==
  \E pin \in GpioPins :
    /\ pin \in gpio.dangling
    /\ gpio.resolved[pin] = gpio.calls[pin]
    /\ gpio.calls[pin] >= 1
    /\ gpio.fut[pin] = 0


====
